---- MODULE Spec2Model ----
(***************************************************************************)
(* A model of the dev-server supervisor of git-worktrees:                  *)
(*   - the process supervisor (helpers/host-manager.ts, process section):  *)
(*     startProcess, stopProcess, the liveness monitor of each spawned     *)
(*     process, detectExternalProcesses;                                   *)
(*   - the process store and the host allocation store (stores/);          *)
(*   - the proxy route manager (helpers/proxy-manager.ts) and its store.   *)
(*                                                                         *)
(* The program is single-threaded JavaScript: a call runs without          *)
(* interruption up to its next await.  One action of the model is one such *)
(* run of code between two awaits; calls interleave only at awaits.        *)
(* Awaits after which the code touches no shared state are merged with the *)
(* step that follows them.                                                 *)
(***************************************************************************)
EXTENDS Integers, Sequences, FiniteSets, TLC

\* ------------------------------------------------------------------ bounds
NPaths == 2
MaxPid == 3
MaxCalls == 3
NPorts == 2
MaxProxyCalls == 3
MaxBothCalls == 4

\* ------------------------------------------------------- program constants
START_HOST_INDEX == 2
MAX_HOST_INDEX == 255

Paths == 1..NPaths
Pids == 1..MaxPid
Calls == 1..MaxCalls
HostPool == START_HOST_INDEX..MAX_HOST_INDEX
Ports == 1..NPorts
ProxyCalls == 1..MaxProxyCalls

NoHost == 0
NoPid == 0

VARIABLES
  alive,            \* OS: the set of pids of live spawned child processes
  nextPid,          \* OS: the next pid a spawn obtains
  info,             \* ProcessInfo objects, by record id: path, pid, host, status
  runningProcesses, \* process store: the registry (Map path -> RunningProcess)
  processes,        \* process store: the in-memory table of persisted records
  lsProcesses,      \* LocalStorage "worktree-processes"
  allocations,      \* host store: path -> allocated host index (0: none)
  monPc,            \* per record: the position of its setInterval liveness monitor
  call,             \* the API calls in flight: op, path, pc and locals
  proxyStates,      \* proxy store: path -> ProxyState
  isInitialized,    \* proxy store: the LocalStorage load has been applied
  lsProxyStates,    \* LocalStorage "proxy-states"
  servers,          \* the external proxy: the registered servers <<path, port>>
  pcall,            \* the proxy manager calls in flight
  maxSize,          \* a CircularBuffer: its capacity (0: none constructed)
  buffer,           \* a CircularBuffer: the array of maxSize slots
  pointer,          \* a CircularBuffer: the slot the next push writes (0-based)
  size,             \* a CircularBuffer: the number of slots written, at most maxSize
  pushed,           \* history: the items pushed since construction or clear()
  ready,            \* a startProcessAndWaitForReady call: its locals, its timer, the clock
  readyHist,        \* history of that call: the first matching line, what resolved it
  lsAllocations,    \* LocalStorage "worktree-host-allocations"
  hcall,            \* the host store calls in flight, each with the table it is writing
  stopRun,          \* one stopProcess call followed through its kills and its writes
  killPass          \* one killProcess pass over a process tree: the signals it issues

procVars == <<alive, nextPid, info, runningProcesses, processes, lsProcesses, monPc>>
hostVars == <<allocations>>
supervisorVars == <<alive, nextPid, info, runningProcesses, processes, lsProcesses, allocations,
                    monPc, call>>
proxyVars == <<proxyStates, isInitialized, lsProxyStates, servers, pcall>>
bufferVars == <<maxSize, buffer, pointer, size, pushed>>
\* The state of the units that are followed on their own.
readyVars == <<ready, readyHist>>
hostStoreVars == <<lsAllocations, hcall>>
stopVars == <<stopRun, killPass>>
unitVars == <<bufferVars, readyVars, hostStoreVars, stopVars>>
vars == <<alive, nextPid, info, runningProcesses, processes, lsProcesses, allocations, monPc, call,
          proxyStates, isInitialized, lsProxyStates, servers, pcall,
          maxSize, buffer, pointer, size, pushed, ready, readyHist, lsAllocations, hcall,
          stopRun, killPass>>

\* ------------------------------------------------------------ data shapes
NoInfo == [path |-> 0, pid |-> NoPid, host |-> NoHost, status |-> "none", tracked |-> FALSE,
           restored |-> FALSE]
NoStored == [pid |-> NoPid, host |-> NoHost]
NoCall == [op |-> "none", path |-> 0, pc |-> "idle", host |-> NoHost, running |-> 0,
           rec |-> 0, snap |-> [p \in Paths |-> NoPid], idx |-> 0, ok |-> TRUE, during |-> {},
           hosts |-> [p \in Paths |-> NoHost], found |-> [p \in Paths |-> "none"],
           trackProcess |-> TRUE]

\* A ProxyState of the proxy store (status "none": the path has no entry).
NoProxy == [status |-> "none", ports |-> <<>>]
ActiveProxy(ports) == [status |-> "active", ports |-> ports]

\* The port lists a caller passes: the forwarded ports, without repetition.
PortLists ==
  {s \in UNION {[1..n -> Ports] : n \in 1..NPorts} :
     \A i \in DOMAIN s, j \in DOMAIN s : i < j => s[i] < s[j]}

NoProxyCall == [op |-> "none", path |-> 0, ports |-> <<>>, pc |-> "idle",
                loaded |-> [p \in Paths |-> NoProxy], others |-> <<>>, saw |-> {},
                rpath |-> 0, rports |-> <<>>, i |-> 0, ok |-> FALSE, during |-> {}]

\* ------------------------------------------------- process store (registry)
\* getRunningProcess: runningProcesses.get(worktreePath); 0 when absent.
getRunningProcess(reg, p) ==
  LET S == {r \in reg : info[r].path = p}
  IN IF S = {} THEN 0 ELSE CHOOSE r \in S : TRUE

\* A registry that is a list of records rather than a map keyed by the path:
\* inserting a record keeps the record the path already has.
setRunningProcessAppend(reg, p, r) == reg \cup {r}

\* setRunningProcess: newMap.set(worktreePath, processData) replaces the entry of the key.
setRunningProcess(reg, p, r) == (reg \ {q \in reg : info[q].path = p}) \cup {r}

\* removeRunningProcess: newMap.delete(worktreePath).
removeRunningProcess(reg, p) == reg \ {q \in reg : info[q].path = p}

\* --------------------------------------------------- host allocation store
usedHosts(allocs) == {allocs[q] : q \in {x \in DOMAIN allocs : allocs[x] # NoHost}}

\* An allocator that never hands out a released address again: the index after
\* the highest one in use.
NextUnusedHost(allocs) ==
  LET top == CHOOSE i \in usedHosts(allocs) \cup {START_HOST_INDEX - 1} :
               \A j \in usedHosts(allocs) : j <= i
  IN IF top + 1 \in HostPool THEN top + 1 ELSE NoHost

\* An allocator that starts over at the first address when every address of the
\* pool is in use.
FirstFreeOrFirstHost(allocs) ==
  LET free == {i \in HostPool : i \notin usedHosts(allocs)}
  IN IF free = {} THEN START_HOST_INDEX ELSE CHOOSE i \in free : \A j \in free : i <= j

\* The for loop of allocateHost: the first index of the pool that is not in use.
FirstFreeHost(allocs) ==
  LET free == {i \in HostPool : i \notin usedHosts(allocs)}
  IN IF free = {} THEN NoHost ELSE CHOOSE i \in free : \A j \in free : i <= j

\* An allocateHost without the check for an existing allocation.
allocateHostAnew(allocs, p) ==
  IF FirstFreeHost(allocs) = NoHost THEN allocs
  ELSE [allocs EXCEPT ![p] = FirstFreeHost(allocs)]

\* allocateHost: the table after the call (unchanged when the path holds a host).
allocateHost(allocs, p) ==
  IF allocs[p] # NoHost THEN allocs
  ELSE IF FirstFreeHost(allocs) = NoHost THEN allocs
  ELSE [allocs EXCEPT ![p] = FirstFreeHost(allocs)]

\* deallocateHost: delete currentAllocations[worktreePath].
deallocateHost(allocs, p) == [allocs EXCEPT ![p] = NoHost]

\* ------------------------------------------------------------------- Init
InitStores ==
  /\ alive = {}
  /\ nextPid = 1
  /\ info = [r \in Pids |-> NoInfo]
  /\ runningProcesses = {}
  /\ processes = [p \in Paths |-> NoStored]
  /\ lsProcesses = [p \in Paths |-> NoStored]
  /\ allocations = [p \in Paths |-> NoHost]
  /\ monPc = [r \in Pids |-> "off"]
  /\ call = [t \in Calls |-> NoCall]
  /\ proxyStates = [p \in Paths |-> NoProxy]
  /\ isInitialized = FALSE
  /\ lsProxyStates = [p \in Paths |-> NoProxy]
  /\ servers = {}
  /\ pcall = [t \in ProxyCalls |-> NoProxyCall]

\* No CircularBuffer is followed.
NoBuffer == maxSize = 0 /\ buffer = <<>> /\ pointer = 0 /\ size = 0 /\ pushed = <<>>

\* No startProcessAndWaitForReady call is followed.
NoReadyCall ==
  [phase |-> "none", total |-> 0, status |-> "none", tails |-> FALSE, processInfo |-> FALSE,
   resolved |-> FALSE, result |-> "none", hasReceivedOutput |-> FALSE, lastOutputTime |-> 0,
   now |-> 0, timeoutCheck |-> FALSE, stopping |-> FALSE]
NoReadyHist == [firstMatch |-> "none", cause |-> "none", sawSuccess |-> FALSE, early |-> FALSE]
NoReady == ready = NoReadyCall /\ readyHist = NoReadyHist

\* The persistence of the host store is not followed.
NoHostStore == lsAllocations = <<>> /\ hcall = <<>>

\* No stopProcess call is followed on its own.
NoStopRun == stopRun = <<>> /\ killPass = <<>>

Init == InitStores /\ NoBuffer /\ NoReady /\ NoHostStore /\ NoStopRun

\* ------------------------------------------------------------ API calls
\* Calls take the slots in order; a slot is used once.
CanLaunch(t) ==
  /\ call[t].op = "none"
  /\ \A u \in Calls : u < t => call[u].op # "none"

\* Paths are interchangeable: a call names a path already named or the next new one.
PathChoice(p) == \A q \in Paths : q < p => \E u \in Calls : call[u].path = q

\* What is kept of a call that has returned: its arguments and its result.
Returned(c, ok) == [NoCall EXCEPT !.op = c.op, !.path = c.path, !.pc = "done",
                                  !.rec = c.rec, !.ok = ok, !.during = c.during,
                                  !.trackProcess = c.trackProcess]

Active(t) == call[t].op # "none" /\ call[t].pc # "done"

\* The calls on path p that are in flight (when a new call on p arrives).
During(p) == {u \in Calls : Active(u) /\ call[u].path = p}

\* A start request: the caller may reserve a host (allocateHost) and passes it on.
LaunchStart(t, p, withHost) ==
  /\ CanLaunch(t) /\ PathChoice(p)
  /\ UNCHANGED <<proxyVars, unitVars>>
  /\ call' = [call EXCEPT ![t] = [NoCall EXCEPT !.op = "start", !.path = p,
                 !.pc = IF withHost THEN "alloc" ELSE "begin", !.during = During(p)]]
  /\ UNCHANGED <<procVars, hostVars>>

\* A start request with trackProcess = false (a setup script), without a host.
LaunchStartUntracked(t, p) ==
  /\ CanLaunch(t) /\ PathChoice(p)
  /\ UNCHANGED <<proxyVars, unitVars>>
  /\ call' = [call EXCEPT ![t] = [NoCall EXCEPT !.op = "start", !.path = p, !.pc = "begin",
                 !.trackProcess = FALSE, !.during = During(p)]]
  /\ UNCHANGED <<procVars, hostVars>>

\* allocateHost(path) of the start request: table updated, then persisted (awaited).
StartAlloc(t) ==
  /\ call[t].op = "start" /\ call[t].pc = "alloc"
  /\ UNCHANGED <<proxyVars, unitVars>>
  /\ allocations' = allocateHost(allocations, call[t].path)
  /\ call' = [call EXCEPT ![t].host = allocations'[call[t].path], ![t].pc = "begin"]
  /\ UNCHANGED procVars

\* The synchronous run of stopProcess up to its first await: the record of the
\* path is read once (running); without one the kills are skipped.
StopEntryPc(r) == IF r # 0 THEN "kill" ELSE "chk"

LaunchStop(t, p) ==
  /\ CanLaunch(t) /\ PathChoice(p)
  /\ UNCHANGED <<proxyVars, unitVars>>
  /\ call' = [call EXCEPT ![t] = [NoCall EXCEPT !.op = "stop", !.path = p,
                 !.running = getRunningProcess(runningProcesses, p),
                 !.pc = StopEntryPc(getRunningProcess(runningProcesses, p)),
                 !.during = During(p)]]
  /\ UNCHANGED <<procVars, hostVars>>

\* A startProcess that fills in the record object the path had before, when it
\* had one, instead of building a new one.
SpawnInPlace(t, p) ==
  LET old == {r \in Pids : info[r].path = p}
      rec == IF old = {} THEN nextPid ELSE CHOOSE r \in old : \A q \in old : q <= r
  IN /\ nextPid <= MaxPid
     /\ alive' = alive \cup {nextPid}
     /\ info' = [info EXCEPT ![rec] = [path |-> p, pid |-> nextPid, host |-> call[t].host,
                                       status |-> "running", tracked |-> TRUE,
                                       restored |-> FALSE]]
     /\ nextPid' = nextPid + 1
     /\ monPc' = [monPc EXCEPT ![rec] = "idle"]
     /\ runningProcesses' = setRunningProcess(runningProcesses, p, rec)
     /\ call' = [call EXCEPT ![t].rec = rec, ![t].running = 0, ![t].pc = "store"]
     /\ UNCHANGED <<processes, lsProcesses, hostVars>>

\* startProcess after its validation awaits: validation fails (throw), or an
\* existing record is stopped first, or the child is spawned and registered.
\* The record is a new object (const info: ProcessInfo = {...}).  With
\* trackProcess = false the record is neither registered nor persisted and the
\* call returns at once; the monitor is set all the same.
Spawn(t, p) ==
  /\ nextPid <= MaxPid
  /\ alive' = alive \cup {nextPid}
  /\ info' = [info EXCEPT ![nextPid] = [path |-> p, pid |-> nextPid, host |-> call[t].host,
                                       status |-> "running", tracked |-> call[t].trackProcess,
                                       restored |-> FALSE]]
  /\ nextPid' = nextPid + 1
  /\ monPc' = [monPc EXCEPT ![nextPid] = "idle"]
  /\ runningProcesses' = IF call[t].trackProcess
                            THEN setRunningProcess(runningProcesses, p, nextPid)
                            ELSE runningProcesses
  /\ call' = IF call[t].trackProcess
               THEN [call EXCEPT ![t].rec = nextPid, ![t].running = 0, ![t].pc = "store"]
               ELSE [call EXCEPT ![t] = Returned([call[t] EXCEPT !.rec = nextPid], TRUE)]
  /\ UNCHANGED <<processes, lsProcesses, hostVars>>

\* A startProcess that stops the record the path has before it validates the
\* directory and package.json, so that a failed validation has stopped it.
StartBeginStopFirst(t) ==
  LET existing == getRunningProcess(runningProcesses, call[t].path)
  IN /\ call[t].op = "start" /\ call[t].pc = "begin"
     /\ UNCHANGED <<proxyVars, unitVars>>
     /\ \/ /\ call' = [call EXCEPT ![t] = Returned(call[t], FALSE)]
           /\ alive' = IF existing # 0 THEN alive \ {info[existing].pid} ELSE alive
           /\ info' = IF existing # 0 THEN [info EXCEPT ![existing].status = "stopped"] ELSE info
           /\ runningProcesses' = removeRunningProcess(runningProcesses, call[t].path)
           /\ UNCHANGED <<nextPid, processes, lsProcesses, monPc, hostVars>>
        \/ /\ existing # 0
           /\ call' = [call EXCEPT ![t].running = existing, ![t].pc = "kill"]
           /\ UNCHANGED <<procVars, hostVars>>
        \/ /\ existing = 0
           /\ Spawn(t, call[t].path)

StartBegin(t) ==
  /\ call[t].op = "start" /\ call[t].pc = "begin"
  /\ UNCHANGED <<proxyVars, unitVars>>
  /\ \/ /\ call' = [call EXCEPT ![t] = Returned(call[t], FALSE)]
        /\ UNCHANGED <<procVars, hostVars>>
     \/ /\ getRunningProcess(runningProcesses, call[t].path) # 0
        /\ call' = [call EXCEPT ![t].running = getRunningProcess(runningProcesses, call[t].path),
                                ![t].pc = "kill"]
        /\ UNCHANGED <<procVars, hostVars>>
     \/ /\ getRunningProcess(runningProcesses, call[t].path) = 0
        /\ Spawn(t, call[t].path)

\* startProcess after the stop of the existing record has returned.
StartSpawn(t) ==
  /\ call[t].op = "start" /\ call[t].pc = "spawn"
  /\ UNCHANGED <<proxyVars, unitVars>>
  /\ Spawn(t, call[t].path)

\* stored[path] = {...}; storeProcesses(stored); return info.
StartStore(t) ==
  /\ call[t].op = "start" /\ call[t].pc = "store"
  /\ UNCHANGED <<proxyVars, unitVars>>
  /\ processes' = [processes EXCEPT ![call[t].path] =
                     [pid |-> info[call[t].rec].pid, host |-> call[t].host]]
  /\ lsProcesses' = processes'
  /\ call' = [call EXCEPT ![t] = Returned(call[t], TRUE)]
  /\ UNCHANGED <<alive, nextPid, info, runningProcesses, monPc, hostVars>>

\* ------------------------------------------------------------ stopProcess
InStop(t) == call[t].op \in {"start", "stop"}

\* killProcess(info.pid), the grace period, isProcessRunning(info.pid) and
\* killProcess(info.pid, true): the step at which the record's pid is dead for
\* certain (by the graceful pass or, failing that, by the forced one).  The sweep
\* of same-directory leftovers that follows kills only processes whose command
\* line happens to name the path: for the supervisor that is a child exiting at a
\* moment it does not control, which is ChildExit.
StopKill(t) ==
  /\ InStop(t) /\ call[t].pc = "kill"
  /\ UNCHANGED <<proxyVars, unitVars>>
  /\ alive' = alive \ {info[call[t].running].pid}
  /\ call' = [call EXCEPT ![t].pc = "fin"]
  /\ UNCHANGED <<nextPid, info, runningProcesses, processes, lsProcesses, monPc, hostVars>>

\* info.status = "stopped"; removeRunningProcess(worktreePath).
StopFin(t) ==
  /\ InStop(t) /\ call[t].pc = "fin"
  /\ UNCHANGED <<proxyVars, unitVars>>
  /\ info' = [info EXCEPT ![call[t].running].status = "stopped"]
  /\ runningProcesses' = removeRunningProcess(runningProcesses, call[t].path)
  /\ call' = [call EXCEPT ![t].pc = "chk"]
  /\ UNCHANGED <<alive, nextPid, processes, lsProcesses, monPc, hostVars>>

\* A call when its stopProcess returns: startProcess goes on to spawn.
AfterStop(c) == IF c.op = "start" THEN [c EXCEPT !.pc = "spawn"] ELSE Returned(c, TRUE)

\* A stopProcess that releases the host and rewrites the persisted records
\* without looking whether the path has a persisted record.
StopChkAlwaysRelease(t) ==
  /\ call[t].op \in {"start", "stop"} /\ call[t].pc = "chk"
  /\ UNCHANGED <<proxyVars, unitVars>>
  /\ call' = [call EXCEPT ![t].pc = "dealloc"]
  /\ UNCHANGED <<procVars, hostVars>>

\* const stored = await getStoredProcesses(); if (stored[worktreePath]) ...
StopChk(t) ==
  /\ InStop(t) /\ call[t].pc = "chk"
  /\ UNCHANGED <<proxyVars, unitVars>>
  /\ call' = [call EXCEPT ![t] = IF processes[call[t].path] # NoStored
                                  THEN [call[t] EXCEPT !.pc = "dealloc"] ELSE AfterStop(call[t])]
  /\ UNCHANGED <<procVars, hostVars>>

\* await deallocateHost(worktreePath)
StopDealloc(t) ==
  /\ InStop(t) /\ call[t].pc = "dealloc"
  /\ UNCHANGED <<proxyVars, unitVars>>
  /\ allocations' = deallocateHost(allocations, call[t].path)
  /\ call' = [call EXCEPT ![t].pc = "del"]
  /\ UNCHANGED procVars

\* delete stored[worktreePath]; await storeProcesses(stored)
StopDel(t) ==
  /\ InStop(t) /\ call[t].pc = "del"
  /\ UNCHANGED <<proxyVars, unitVars>>
  /\ processes' = [processes EXCEPT ![call[t].path] = NoStored]
  /\ lsProcesses' = processes'
  /\ call' = [call EXCEPT ![t] = AfterStop(call[t])]
  /\ UNCHANGED <<alive, nextPid, info, runningProcesses, monPc, hostVars>>

\* ------------------------------------------------- the liveness monitor
\* A tick of setInterval that finds the pid dead: clearInterval, status stopped,
\* removeRunningProcess(worktreePath).  A tick that finds it alive changes nothing.
\* The monitor of a restored record leaves the status as it is.
MonitorTick(r) ==
  /\ monPc[r] = "idle"
  /\ UNCHANGED <<proxyVars, unitVars>>
  /\ info[r].pid \notin alive
  /\ info' = IF info[r].restored THEN info ELSE [info EXCEPT ![r].status = "stopped"]
  /\ runningProcesses' = removeRunningProcess(runningProcesses, info[r].path)
  /\ monPc' = [monPc EXCEPT ![r] = "chk"]
  /\ UNCHANGED <<alive, nextPid, processes, lsProcesses, hostVars, call>>

MonitorChk(r) ==
  /\ monPc[r] = "chk"
  /\ UNCHANGED <<proxyVars, unitVars>>
  /\ monPc' = [monPc EXCEPT ![r] = IF processes[info[r].path] # NoStored THEN "dealloc" ELSE "end"]
  /\ UNCHANGED <<alive, nextPid, info, runningProcesses, processes, lsProcesses, hostVars, call>>

MonitorDealloc(r) ==
  /\ monPc[r] = "dealloc"
  /\ UNCHANGED <<proxyVars, unitVars>>
  /\ allocations' = deallocateHost(allocations, info[r].path)
  /\ monPc' = [monPc EXCEPT ![r] = "del"]
  /\ UNCHANGED <<alive, nextPid, info, runningProcesses, processes, lsProcesses, call>>

MonitorDel(r) ==
  /\ monPc[r] = "del"
  /\ UNCHANGED <<proxyVars, unitVars>>
  /\ processes' = [processes EXCEPT ![info[r].path] = NoStored]
  /\ lsProcesses' = processes'
  /\ monPc' = [monPc EXCEPT ![r] = "end"]
  /\ UNCHANGED <<alive, nextPid, info, runningProcesses, hostVars, call>>

\* ------------------------------------------- detectExternalProcesses
\* The next path after i whose snapshot entry holds a record (NPaths + 1: none).
NextEntry(snap, i) ==
  LET S == {p \in Paths : p > i /\ snap[p] # NoPid}
  IN IF S = {} THEN NPaths + 1 ELSE CHOOSE p \in S : \A q \in S : p <= q

\* detectExternalProcesses(worktreePaths), called from the UI's polling hooks with
\* every worktree path or with the path of one worktree.
LaunchDetect(t) ==
  /\ CanLaunch(t)
  /\ UNCHANGED <<proxyVars, unitVars>>
  /\ call' = [call EXCEPT ![t] = [NoCall EXCEPT !.op = "detect", !.pc = "d_get"]]
  /\ UNCHANGED <<procVars, hostVars>>

\* const stored = await getStoredProcesses(); Object.entries(stored) is taken once;
\* the loop skips, without awaiting, the entries whose path is not in worktreePaths.
DetectSnap(t) ==
  /\ call[t].op = "detect" /\ call[t].pc = "d_get"
  /\ UNCHANGED <<proxyVars, unitVars>>
  /\ \E worktreePaths \in SUBSET Paths :
       LET snap == [p \in Paths |-> IF p \in worktreePaths THEN processes[p].pid ELSE NoPid]
       IN call' = [call EXCEPT ![t].snap = snap, ![t].idx = NextEntry(snap, 0), ![t].pc = "d_loop"]
  /\ UNCHANGED <<procVars, hostVars>>

\* One turn of the loop: isProcessRunning(data.pid) of the entry read at the
\* snapshot; a dead pid deletes stored[path] in place (the store's own object).
DetectCheck(t) ==
  /\ call[t].op = "detect" /\ call[t].pc = "d_loop" /\ call[t].idx <= NPaths
  /\ UNCHANGED <<proxyVars, unitVars>>
  /\ processes' = IF call[t].snap[call[t].idx] \in alive THEN processes
                  ELSE [processes EXCEPT ![call[t].idx] = NoStored]
  /\ call' = [call EXCEPT ![t].idx = NextEntry(call[t].snap, call[t].idx)]
  /\ UNCHANGED <<alive, nextPid, info, runningProcesses, lsProcesses, monPc, hostVars>>

\* await storeProcesses(stored)
DetectEnd(t) ==
  /\ call[t].op = "detect" /\ call[t].pc = "d_loop" /\ call[t].idx > NPaths
  /\ UNCHANGED <<proxyVars, unitVars>>
  /\ lsProcesses' = processes
  /\ call' = [call EXCEPT ![t] = Returned(call[t], TRUE)]
  /\ UNCHANGED <<alive, nextPid, info, runningProcesses, processes, monPc, hostVars>>

\* ------------------------------------------------------- the environment
\* A child process exits on its own.
ChildExit(q) ==
  /\ q \in alive
  /\ UNCHANGED <<proxyVars, unitVars>>
  /\ alive' = alive \ {q}
  /\ UNCHANGED <<nextPid, info, runningProcesses, processes, lsProcesses, monPc, hostVars, call>>

\* ------------------------------------------------------ proxy route manager
\* The answer of the external proxy's admin API to one request: a response that
\* is ok, a response that is not ok, or none (fetch throws).
Responses == {"ok", "notOk", "throws"}

RangeOf(s) == {s[i] : i \in DOMAIN s}

\* The paths of a set as a list, in the order of the table's entries.
RECURSIVE EntriesOf(_)
EntriesOf(S) ==
  IF S = {} THEN <<>>
  ELSE LET m == CHOOSE x \in S : \A y \in S : x <= y IN <<m>> \o EntriesOf(S \ {m})

\* Proxy manager calls take the slots in order; a slot is used once.
ProxyCanLaunch(t) == pcall[t].op = "none" /\ \A u \in ProxyCalls : u < t => pcall[u].op # "none"
ProxyActive(t) == pcall[t].op # "none" /\ pcall[t].pc # "done"

\* A call that has returned keeps its arguments and its result, not its locals.
ProxyReturned(c, ok) ==
  [NoProxyCall EXCEPT !.op = c.op, !.path = c.path, !.ports = c.ports, !.pc = "done",
                      !.saw = c.saw, !.ok = ok, !.during = c.during]

\* setupProxyRoutes: otherWorktreePath !== worktreePath && state.status === "active"
\* && state.ports.filter(p => ports.includes(p)).length > 0, on the snapshot allStates.
Conflicting(allStates, p, ports) ==
  {q \in Paths : /\ q # p
                 /\ allStates[q].status = "active"
                 /\ RangeOf(allStates[q].ports) \cap RangeOf(ports) # {}}

\* The head of the loop over the conflicting entries: removeProxyRoutes(other)
\* reads the other path's state (getProxyState) and returns false when it has
\* none, else issues its first DELETE; after the loop, the first PUT is issued.
RECURSIVE LoopHead(_, _)
LoopHead(c, states) ==
  IF c.others = <<>> THEN [c EXCEPT !.pc = "s_put", !.i = 1, !.rpath = 0, !.rports = <<>>]
  ELSE IF states[Head(c.others)] = NoProxy
       THEN LoopHead([c EXCEPT !.others = Tail(c.others)], states)
       ELSE [c EXCEPT !.others = Tail(c.others), !.rpath = Head(c.others),
                      !.rports = states[Head(c.others)].ports, !.i = 1, !.pc = "r_del"]

\* const allStates = await getAllProxyStates() of setupProxyRoutes, and the loop's head.
Snapshot(c, states) ==
  LoopHead([c EXCEPT !.others = EntriesOf(Conflicting(states, c.path, c.ports)),
                     !.saw = Conflicting(states, c.path, c.ports)], states)

\* const state = await getProxyState(worktreePath); if (!state) return false;
EnterRemove(c, states) ==
  IF states[c.path] = NoProxy THEN ProxyReturned(c, FALSE)
  ELSE [c EXCEPT !.rpath = c.path, !.rports = states[c.path].ports, !.i = 1, !.pc = "r_del"]

\* What the caller of getAllProxyStates does with the table it returns.
AfterStates(c, states) == IF c.op = "setup" THEN Snapshot(c, states) ELSE EnterRemove(c, states)

\* getAllProxyStates: if (!store.isInitialized) await store.initializeStore(), which
\* issues LocalStorage.getItem; return store.getAllProxyStates().
GetAll(c) ==
  IF isInitialized THEN AfterStates(c, proxyStates)
  ELSE [c EXCEPT !.pc = "load", !.loaded = lsProxyStates]

\* setupProxyRoutes(worktreePath, targetHost, ports) is called: the GET of
\* isProxyServerInstalled is issued.
LaunchSetup(t, p, ports) ==
  /\ ProxyCanLaunch(t)
  /\ pcall' = [pcall EXCEPT ![t] = [NoProxyCall EXCEPT !.op = "setup", !.path = p, !.ports = ports,
                                       !.pc = "s_check",
                                       !.during = {u \in ProxyCalls : ProxyActive(u)}]]
  /\ UNCHANGED <<supervisorVars, unitVars, proxyStates, isInitialized, lsProxyStates, servers>>

\* removeProxyRoutes(worktreePath) is called: getProxyState runs up to its first await.
LaunchRemove(t, p) ==
  /\ ProxyCanLaunch(t)
  /\ pcall' = [pcall EXCEPT ![t] = GetAll([NoProxyCall EXCEPT !.op = "remove", !.path = p,
                                       !.during = {u \in ProxyCalls : ProxyActive(u)}])]
  /\ UNCHANGED <<supervisorVars, unitVars, proxyStates, isInitialized, lsProxyStates, servers>>

\* isProxyServerInstalled answers; if (!isAccessible) return false; else getAllProxyStates.
SetupCheck(t) ==
  /\ pcall[t].op = "setup" /\ pcall[t].pc = "s_check"
  /\ \E isAccessible \in BOOLEAN :
       pcall' = [pcall EXCEPT ![t] = IF isAccessible THEN GetAll(pcall[t])
                                     ELSE ProxyReturned(pcall[t], FALSE)]
  /\ UNCHANGED <<supervisorVars, unitVars, proxyStates, isInitialized, lsProxyStates, servers>>

\* initializeStore after its await: set({ proxyStates, isInitialized: true }) with
\* what LocalStorage.getItem read; the caller goes on with the table.
ProxyLoad(t) ==
  /\ pcall[t].op # "none" /\ pcall[t].pc = "load"
  /\ proxyStates' = pcall[t].loaded
  /\ isInitialized' = TRUE
  /\ pcall' = [pcall EXCEPT ![t] = AfterStates([pcall[t] EXCEPT !.loaded = NoProxyCall.loaded],
                                                proxyStates')]
  /\ UNCHANGED <<supervisorVars, unitVars, lsProxyStates, servers>>

\* removeProxyRoutes returns to its caller: setupProxyRoutes ignores the result
\* and goes on with its loop.
RemoveReturned(c, ok) ==
  IF c.op = "setup" THEN [c EXCEPT !.pc = "s_loop", !.rpath = 0, !.rports = <<>>, !.i = 0]
  ELSE ProxyReturned(c, ok)

\* removeProxyRoutes: the DELETE of one port of the state is answered.  fetch
\* throwing ends the call with false and keeps the state; a response, ok or not,
\* goes on, and after the last port removeProxyState drops the entry and saves.
RemoveDelete(t) ==
  /\ pcall[t].op # "none" /\ pcall[t].pc = "r_del"
  /\ \E resp \in Responses :
       LET c == pcall[t]
           last == c.i = Len(c.rports)
       IN /\ servers' = IF resp = "ok" THEN servers \ {<<c.rpath, c.rports[c.i]>>} ELSE servers
          /\ proxyStates' = IF resp # "throws" /\ last
                            THEN [proxyStates EXCEPT ![c.rpath] = NoProxy] ELSE proxyStates
          /\ lsProxyStates' = IF resp # "throws" /\ last THEN proxyStates' ELSE lsProxyStates
          /\ pcall' = [pcall EXCEPT ![t] =
                         IF resp = "throws" THEN RemoveReturned(c, FALSE)
                         ELSE IF last THEN RemoveReturned(c, TRUE)
                         ELSE [c EXCEPT !.i = c.i + 1]]
  /\ UNCHANGED <<supervisorVars, unitVars, isInitialized>>

\* setupProxyRoutes after removeProxyRoutes(other) has returned: the next entry.
SetupLoop(t) ==
  /\ pcall[t].op = "setup" /\ pcall[t].pc = "s_loop"
  /\ pcall' = [pcall EXCEPT ![t] = LoopHead(pcall[t], proxyStates)]
  /\ UNCHANGED <<supervisorVars, unitVars, proxyStates, isInitialized, lsProxyStates, servers>>

\* setupProxyRoutes: the PUT of one port is answered.  An ok response goes on to
\* the next port and, after the last, saveProxyState stores the active state and
\* the call returns true; otherwise the catch block starts deleting serverIds,
\* the ids pushed so far (that of this port included).
SetupPut(t) ==
  /\ pcall[t].op = "setup" /\ pcall[t].pc = "s_put"
  /\ \E resp \in Responses :
       LET c == pcall[t]
           last == c.i = Len(c.ports)
       IN /\ servers' = IF resp = "ok" THEN servers \cup {<<c.path, c.ports[c.i]>>} ELSE servers
          /\ proxyStates' = IF resp = "ok" /\ last
                            THEN [proxyStates EXCEPT ![c.path] = ActiveProxy(c.ports)]
                            ELSE proxyStates
          /\ lsProxyStates' = IF resp = "ok" /\ last THEN proxyStates' ELSE lsProxyStates
          /\ pcall' = [pcall EXCEPT ![t] =
                         IF resp # "ok"
                         THEN [c EXCEPT !.pc = "s_clean", !.rpath = c.path,
                                        !.rports = SubSeq(c.ports, 1, c.i), !.i = 1]
                         ELSE IF last THEN ProxyReturned(c, TRUE)
                         ELSE [c EXCEPT !.i = c.i + 1]]
  /\ UNCHANGED <<supervisorVars, unitVars, isInitialized>>

\* The catch block of setupProxyRoutes: the DELETE of one of serverIds is
\* answered (errors ignored); after the last the call returns false.
SetupCleanup(t) ==
  /\ pcall[t].op = "setup" /\ pcall[t].pc = "s_clean"
  /\ \E resp \in Responses :
       LET c == pcall[t]
       IN /\ servers' = IF resp = "ok" THEN servers \ {<<c.path, c.rports[c.i]>>} ELSE servers
          /\ pcall' = [pcall EXCEPT ![t] = IF c.i = Len(c.rports) THEN ProxyReturned(c, FALSE)
                                           ELSE [c EXCEPT !.i = c.i + 1]]
  /\ UNCHANGED <<supervisorVars, unitVars, proxyStates, isInitialized, lsProxyStates>>

\* A new call of the proxy manager arrives.
ProxyLaunch ==
  \/ \E t \in ProxyCalls, p \in Paths, ports \in PortLists : LaunchSetup(t, p, ports)
  \/ \E t \in ProxyCalls, p \in Paths : LaunchRemove(t, p)

\* A proxy manager call in flight takes its next step.
ProxyStep ==
  \/ \E t \in ProxyCalls : SetupCheck(t)
  \/ \E t \in ProxyCalls : ProxyLoad(t)
  \/ \E t \in ProxyCalls : RemoveDelete(t)
  \/ \E t \in ProxyCalls : SetupLoop(t)
  \/ \E t \in ProxyCalls : SetupPut(t)
  \/ \E t \in ProxyCalls : SetupCleanup(t)

NextProxy == ProxyLaunch \/ ProxyStep

\* The proxy manager, its calls arriving at any moment and overlapping.
SpecProxy == Init /\ [][NextProxy]_vars

\* No proxy manager call is in flight.
ProxyQuiet == \A u \in ProxyCalls : ~ProxyActive(u)

\* The proxy manager, each call issued after the previous one has returned.
NextProxySeq == (ProxyQuiet /\ ProxyLaunch) \/ ProxyStep

SpecProxySeq == Init /\ [][NextProxySeq]_vars

\* ------------------------------------------------------------------- Next
\* A new API call arrives.
Launch ==
  \/ \E t \in Calls, p \in Paths, h \in BOOLEAN : LaunchStart(t, p, h)
  \/ \E t \in Calls, p \in Paths : LaunchStop(t, p)
  \/ \E t \in Calls : LaunchDetect(t)

\* A call in flight, a monitor or a child process takes its next step.
Step ==
  \/ \E t \in Calls : DetectSnap(t)
  \/ \E t \in Calls : DetectCheck(t)
  \/ \E t \in Calls : DetectEnd(t)
  \/ \E t \in Calls : StartAlloc(t)
  \/ \E t \in Calls : StartBegin(t)
  \/ \E t \in Calls : StartSpawn(t)
  \/ \E t \in Calls : StartStore(t)
  \/ \E t \in Calls : StopKill(t)
  \/ \E t \in Calls : StopFin(t)
  \/ \E t \in Calls : StopChk(t)
  \/ \E t \in Calls : StopDealloc(t)
  \/ \E t \in Calls : StopDel(t)
  \/ \E r \in Pids : MonitorTick(r)
  \/ \E r \in Pids : MonitorChk(r)
  \/ \E r \in Pids : MonitorDealloc(r)
  \/ \E r \in Pids : MonitorDel(r)
  \/ \E q \in Pids : ChildExit(q)

Next == Launch \/ Step

\* Calls arrive at any moment and overlap.
Spec == Init /\ [][Next]_vars

\* No call is in flight.
Quiet == \A u \in Calls : ~Active(u)

\* Calls arrive one after the other: each is issued after the previous one has
\* returned.  The monitors and the child processes run as before.
NextSeq == (Quiet /\ Launch) \/ Step

SpecSeq == Init /\ [][NextSeq]_vars

\* Calls arrive one after the other, and a start may be one of a setup script
\* (trackProcess = false).
NextUntracked ==
  \/ Quiet /\ Launch
  \/ Quiet /\ \E t \in Calls, p \in Paths : LaunchStartUntracked(t, p)
  \/ Step

SpecUntracked == Init /\ [][NextUntracked]_vars

\* ------------------------------------------- supervisor and proxy together
\* The calls issued so far, of the supervisor and of the proxy manager.
Issued ==
  Cardinality({t \in Calls : call[t].op # "none"})
    + Cardinality({t \in ProxyCalls : pcall[t].op # "none"})

\* useProxy.startProxy of the UI is called for path p with the configured ports:
\* the GET of isProxyServerInstalled is issued.  The hook exists in two variants,
\* one that looks at the registry record and one that looks at the host table.
LaunchStartProxy(t, p, ports, hostOnly) ==
  /\ ProxyCanLaunch(t)
  /\ pcall' = [pcall EXCEPT ![t] = [NoProxyCall EXCEPT !.op = "setup", !.path = p, !.ports = ports,
                                       !.pc = IF hostOnly THEN "h_host" ELSE "h_rec",
                                       !.during = {u \in ProxyCalls : ProxyActive(u)}]]
  /\ UNCHANGED <<supervisorVars, unitVars, proxyStates, isInitialized, lsProxyStates, servers>>

\* getProcessInfo(worktreePath) of the first variant: the record must exist, be
\* running and have a host.
HasRunningHost(p) ==
  /\ getRunningProcess(runningProcesses, p) # 0
  /\ info[getRunningProcess(runningProcesses, p)].status = "running"
  /\ info[getRunningProcess(runningProcesses, p)].host # NoHost

\* startProxy after isProxyServerInstalled has answered: not accessible, or the
\* dev server prerequisite not met, returns false; else setupProxyRoutes is
\* called (and issues its own GET).
StartProxyCheck(t) ==
  /\ pcall[t].op = "setup" /\ pcall[t].pc \in {"h_rec", "h_host"}
  /\ \E isAccessible \in BOOLEAN :
       LET met == IF pcall[t].pc = "h_rec" THEN HasRunningHost(pcall[t].path)
                  ELSE allocations[pcall[t].path] # NoHost
       IN pcall' = [pcall EXCEPT ![t] = IF isAccessible /\ met
                                        THEN [pcall[t] EXCEPT !.pc = "s_check"]
                                        ELSE ProxyReturned(pcall[t], FALSE)]
  /\ UNCHANGED <<supervisorVars, unitVars, proxyStates, isInitialized, lsProxyStates, servers>>

\* The UI binds and unbinds the proxy of a worktree: startProxy, stopProxy.
HookLaunch ==
  \/ \E t \in ProxyCalls, p \in Paths, ports \in PortLists, hostOnly \in BOOLEAN :
       LaunchStartProxy(t, p, ports, hostOnly)
  \/ \E t \in ProxyCalls, p \in Paths : LaunchRemove(t, p)

\* The supervisor and the proxy manager side by side, the proxy manager called
\* through the UI's hook: the calls of both are issued one after the other,
\* MaxBothCalls of them at most; the monitors and the child processes run as
\* before.
NextBoth ==
  \/ Quiet /\ ProxyQuiet /\ Issued < MaxBothCalls /\ (Launch \/ HookLaunch)
  \/ Step
  \/ ProxyStep
  \/ \E t \in ProxyCalls : StartProxyCheck(t)

SpecBoth == Init /\ [][NextBoth]_vars

\* ------------------------------------------------------------- scheduling
\* The liveness monitor of record r: its setInterval callback and the steps of
\* the callback after its awaits.
Monitor(r) == MonitorTick(r) \/ MonitorChk(r) \/ MonitorDealloc(r) \/ MonitorDel(r)

\* The steps of the supervisor call in slot t after its awaits.
CallStep(t) ==
  \/ DetectSnap(t) \/ DetectCheck(t) \/ DetectEnd(t)
  \/ StartAlloc(t) \/ StartBegin(t) \/ StartSpawn(t) \/ StartStore(t)
  \/ StopKill(t) \/ StopFin(t) \/ StopChk(t) \/ StopDealloc(t) \/ StopDel(t)

\* The event loop runs every timer callback and every continuation that is due:
\* a monitor's interval fires every second until it is cleared, an await resumes.
\* Nothing obliges a child process to exit or a caller to call.
SpecLive ==
  /\ Init /\ [][NextSeq]_vars
  /\ \A r \in Pids : WF_vars(Monitor(r))
  /\ \A t \in Calls : WF_vars(CallStep(t))

\* --------------------------------------------------------- CircularBuffer
\* The class is followed on its own, for capacities 1..MaxSize and up to MaxPush
\* pushes of items drawn from Items (the empty line included).
MaxSize == 3
MaxPush == 5
Items == {"a", "b", ""}
Undefined == "undefined"

\* Array.prototype.filter(Boolean) on an array of lines and empty slots.
FilterBoolean(arr) == SelectSeq(arr, LAMBDA x : x # Undefined /\ x # "")

\* toArray() of a buffer that never rotates: the array from slot 0.
toArrayFromZero(buf, ptr, sz, max) == FilterBoolean(SubSeq(buf, 1, sz))

\* toArray(): the first size slots while the buffer is not full, then the slots
\* from the pointer to the end followed by the slots before it, falsy items dropped.
toArray(buf, ptr, sz, max) ==
  IF sz < max
    THEN SubSeq(buf, 1, sz)
    ELSE FilterBoolean(SubSeq(buf, ptr + 1, max) \o SubSeq(buf, 1, ptr))

\* new CircularBuffer(n): n empty slots.
InitBuffer ==
  /\ InitStores
  /\ maxSize \in 1..MaxSize
  /\ buffer = [i \in 1..maxSize |-> Undefined]
  /\ pointer = 0 /\ size = 0 /\ pushed = <<>>
  /\ NoReady /\ NoHostStore /\ NoStopRun

\* push(item)
BufferPush(item) ==
  /\ maxSize > 0 /\ Len(pushed) < MaxPush
  /\ buffer' = [buffer EXCEPT ![pointer + 1] = item]
  /\ pointer' = (pointer + 1) % maxSize
  /\ size' = IF size < maxSize THEN size + 1 ELSE size
  /\ pushed' = Append(pushed, item)
  /\ UNCHANGED <<supervisorVars, proxyVars, readyVars, hostStoreVars, stopVars, maxSize>>

\* clear()
BufferClear ==
  /\ maxSize > 0 /\ pushed # <<>>
  /\ buffer' = [i \in 1..maxSize |-> Undefined]
  /\ pointer' = 0 /\ size' = 0 /\ pushed' = <<>>
  /\ UNCHANGED <<supervisorVars, proxyVars, readyVars, hostStoreVars, stopVars, maxSize>>

NextBuffer ==
  \/ \E item \in Items : BufferPush(item)
  \/ BufferClear

SpecBuffer == InitBuffer /\ [][NextBuffer]_vars

\* --------------------------------------------- startProcessAndWaitForReady
\* One call is followed on its own. The clock counts the periods of the
\* timeoutCheck interval (one second each); the idle window and the total
\* timeout are scaled to a few periods.
IdleTimeoutTicks == 2
DefaultTotalTicks == 4
MaxTimeoutTicks == 3
MaxNow == (IF DefaultTotalTicks > MaxTimeoutTicks THEN DefaultTotalTicks ELSE MaxTimeoutTicks) + 2

\* An output line, as the set of the (lower-cased) substrings it contains.
LocalHttpLine == {"local", "http"}
CannotFindLine == {"cannot find module"}
PlainLine == {}
ErrorReadyLine == {"error:", "ready"}
Lines == {LocalHttpLine, CannotFindLine, PlainLine, ErrorReadyLine}

isSuccessMessage(output) ==
  \/ "DEV_SERVER_SUCCESS_MESSAGE" \in output
  \/ "ready" \in output
  \/ "compiled successfully" \in output
  \/ "started on" \in output
  \/ "listening on" \in output
  \/ "server running" \in output
  \/ "dev server running" \in output
  \/ ("local" \in output /\ "http" \in output)
  \/ "webpack compiled" \in output

isFailureMessage(output) ==
  \/ "exited with code" \in output
  \/ "command failed" \in output
  \/ "elifecycle" \in output
  \/ "failed to connect" \in output
  \/ "error:" \in output
  \/ "cannot find module" \in output
  \/ "module not found" \in output

\* The call has been made with timeoutMs (0: not given): the promise executor
\* has set the interval and called startProcess, which has not spawned yet.
InitReady ==
  /\ InitStores /\ NoBuffer /\ NoHostStore /\ NoStopRun
  /\ \E timeoutMs \in 0..MaxTimeoutTicks :
       ready = [NoReadyCall EXCEPT !.phase = "pending",
                                   !.total = IF timeoutMs # 0 THEN timeoutMs ELSE DefaultTotalTicks,
                                   !.timeoutCheck = TRUE]
  /\ readyHist = NoReadyHist

\* A timeoutCheck callback that only looks at the idle window.
timeoutCheckIdleOnly(r, t) ==
  IF r.resolved
    THEN [r EXCEPT !.timeoutCheck = FALSE]
    ELSE IF r.hasReceivedOutput /\ t - r.lastOutputTime > IdleTimeoutTicks
      THEN [r EXCEPT !.resolved = TRUE, !.timeoutCheck = FALSE,
                     !.result = IF r.processInfo /\ r.status = "running"
                                  THEN "success" ELSE "failure"]
      ELSE r

\* The timeoutCheck callback at time t: the call's locals after it.
timeoutCheck(r, t) ==
  IF r.resolved
    THEN [r EXCEPT !.timeoutCheck = FALSE]
    ELSE IF t > r.total
      THEN [r EXCEPT !.resolved = TRUE, !.timeoutCheck = FALSE,
                     !.result = IF r.processInfo /\ r.status = "running" /\ r.hasReceivedOutput
                                  THEN "success" ELSE "failure"]
      ELSE IF r.hasReceivedOutput /\ t - r.lastOutputTime > IdleTimeoutTicks
        THEN [r EXCEPT !.resolved = TRUE, !.timeoutCheck = FALSE,
                       !.result = IF r.processInfo /\ r.status = "running"
                                    THEN "success" ELSE "failure"]
        ELSE r

\* A period of the interval passes and its callback runs.
TimeoutCheck ==
  /\ ready.timeoutCheck /\ ready.now < MaxNow
  /\ LET t == ready.now + 1
         after == timeoutCheck(ready, t)
     IN /\ ready' = [after EXCEPT !.now = t]
        /\ readyHist' =
             IF after.resolved /\ ~ready.resolved
               THEN [readyHist EXCEPT !.cause = IF t > ready.total THEN "total" ELSE "idle"]
               ELSE readyHist
  /\ UNCHANGED <<supervisorVars, proxyVars, bufferVars, hostStoreVars, stopVars>>

\* startProcess spawns the child, creates its ProcessInfo (status running) and
\* registers the output handlers; it then awaits the store.
ReadySpawn ==
  /\ ready.phase = "pending"
  /\ ready' = [ready EXCEPT !.phase = "spawned", !.status = "running", !.tails = TRUE]
  /\ UNCHANGED <<supervisorVars, proxyVars, bufferVars, hostStoreVars, stopVars, readyHist>>

\* startProcess returns; .then sets processInfo.
ReadyReturn ==
  /\ ready.phase = "spawned"
  /\ ready' = [ready EXCEPT !.phase = "returned", !.processInfo = TRUE]
  /\ UNCHANGED <<supervisorVars, proxyVars, bufferVars, hostStoreVars, stopVars, readyHist>>

\* startProcess rejects (a validation error before the spawn, a store error after it).
ReadyReject ==
  /\ ready.phase \in {"pending", "spawned"}
  /\ ready' = [ready EXCEPT !.phase = "rejected", !.timeoutCheck = FALSE, !.resolved = TRUE,
                            !.result = IF ready.resolved THEN ready.result ELSE "failure"]
  /\ readyHist' = IF ready.resolved THEN readyHist ELSE [readyHist EXCEPT !.cause = "reject"]
  /\ UNCHANGED <<supervisorVars, proxyVars, bufferVars, hostStoreVars, stopVars>>

\* The onOutput callback for one line.
ReadyOutput(output) ==
  /\ ready.tails
  /\ LET r == [ready EXCEPT !.hasReceivedOutput = TRUE, !.lastOutputTime = ready.now]
     IN IF ~ready.resolved /\ isFailureMessage(output)
          THEN \* resolve failure; stopProcess (it first kills the tails) if processInfo is set
               /\ ready' = [r EXCEPT !.resolved = TRUE, !.timeoutCheck = FALSE,
                                     !.result = "failure",
                                     !.stopping = ready.processInfo,
                                     !.tails = ~ready.processInfo]
               /\ readyHist' = [readyHist EXCEPT
                                  !.cause = "line",
                                  !.firstMatch = IF @ = "none" THEN "failure" ELSE @]
          ELSE IF ~ready.resolved /\ ready.processInfo /\ isSuccessMessage(output)
            THEN /\ ready' = [r EXCEPT !.resolved = TRUE, !.timeoutCheck = FALSE,
                                       !.result = "success"]
                 /\ readyHist' = [readyHist EXCEPT
                                    !.cause = "line", !.sawSuccess = TRUE,
                                    !.firstMatch = IF @ = "none" THEN "success" ELSE @]
            ELSE /\ ready' = r
                 /\ readyHist' =
                      IF ~ready.resolved /\ isSuccessMessage(output)
                        THEN [readyHist EXCEPT
                                !.sawSuccess = TRUE, !.early = TRUE,
                                !.firstMatch = IF @ = "none" THEN "success" ELSE @]
                        ELSE readyHist
  /\ UNCHANGED <<supervisorVars, proxyVars, bufferVars, hostStoreVars, stopVars>>

\* The child exits and its liveness monitor sets the status and kills the tails.
ReadyExit ==
  /\ ready.status = "running" /\ ~ready.stopping
  /\ ready' = [ready EXCEPT !.status = "stopped", !.tails = FALSE]
  /\ UNCHANGED <<supervisorVars, proxyVars, bufferVars, hostStoreVars, stopVars, readyHist>>

\* The stopProcess started by the failure branch completes.
ReadyStopFin ==
  /\ ready.stopping
  /\ ready' = [ready EXCEPT !.stopping = FALSE, !.status = "stopped"]
  /\ UNCHANGED <<supervisorVars, proxyVars, bufferVars, hostStoreVars, stopVars, readyHist>>

NextReady ==
  \/ TimeoutCheck
  \/ ReadySpawn
  \/ ReadyReturn
  \/ ReadyReject
  \/ \E output \in Lines : ReadyOutput(output)
  \/ ReadyExit
  \/ ReadyStopFin

\* setInterval runs the timeoutCheck callback every period until it is cleared.
SpecReady == InitReady /\ [][NextReady]_vars /\ WF_vars(TimeoutCheck)

\* ------------------------------------------- cleanupOrphanedProcesses
\* A session can start with records persisted by an earlier session.  Their
\* children have pids outside the pids of this session's spawns.
OldPid(p) == MaxPid + p
OldPids == {OldPid(p) : p \in Paths}

\* The stores as loaded at the start of a session: a path has no persisted
\* record, or one whose child is dead or alive, with or without a host; the
\* host table holds the hosts of the records.
InitRestore ==
  /\ \E old \in [Paths -> {"none", "dead", "alive"}], withHost \in [Paths -> BOOLEAN] :
       /\ \A p \in Paths : old[p] # "none" => \A q \in Paths : q < p => old[q] # "none"
       /\ processes = [p \in Paths |->
                         IF old[p] = "none" THEN NoStored
                         ELSE [pid |-> OldPid(p),
                               host |-> IF withHost[p] THEN START_HOST_INDEX + p - 1 ELSE NoHost]]
       /\ alive = {OldPid(p) : p \in {q \in Paths : old[q] = "alive"}}
  /\ lsProcesses = processes
  /\ allocations = [p \in Paths |-> processes[p].host]
  /\ nextPid = 1
  /\ info = [r \in Pids |-> NoInfo]
  /\ runningProcesses = {}
  /\ monPc = [r \in Pids |-> "off"]
  /\ call = [t \in Calls |-> NoCall]
  /\ proxyStates = [p \in Paths |-> NoProxy]
  /\ isInitialized = FALSE
  /\ lsProxyStates = [p \in Paths |-> NoProxy]
  /\ servers = {}
  /\ pcall = [t \in ProxyCalls |-> NoProxyCall]
  /\ NoBuffer /\ NoReady /\ NoHostStore /\ NoStopRun

\* cleanupOrphanedProcesses() is called (by the mount of the UI's process monitor
\* hook): initializeStore and the sweep of orphaned tail processes are awaited.
LaunchCleanup(t) ==
  /\ CanLaunch(t)
  /\ UNCHANGED <<proxyVars, unitVars>>
  /\ call' = [call EXCEPT ![t] = [NoCall EXCEPT !.op = "cleanup", !.pc = "c_get"]]
  /\ UNCHANGED <<procVars, hostVars>>

\* const stored = await getStoredProcesses(); Object.entries(stored) is taken once.
CleanupSnap(t) ==
  /\ call[t].op = "cleanup" /\ call[t].pc = "c_get"
  /\ UNCHANGED <<proxyVars, unitVars>>
  /\ LET snap == [p \in Paths |-> processes[p].pid]
     IN call' = [call EXCEPT ![t].snap = snap,
                             ![t].hosts = [p \in Paths |-> processes[p].host],
                             ![t].idx = NextEntry(snap, 0), ![t].pc = "c_dir"]
  /\ UNCHANGED <<procVars, hostVars>>

\* test -d path: a missing directory deletes stored[path] in place.
CleanupDir(t) ==
  /\ call[t].op = "cleanup" /\ call[t].pc = "c_dir" /\ call[t].idx <= NPaths
  /\ UNCHANGED <<proxyVars, unitVars>>
  /\ \E directoryExists \in BOOLEAN :
       IF directoryExists
         THEN /\ call' = [call EXCEPT ![t].pc = "c_run"]
              /\ UNCHANGED processes
         ELSE /\ processes' = [processes EXCEPT ![call[t].idx] = NoStored]
              /\ call' = [call EXCEPT ![t].pc = "c_dealloc", ![t].found[call[t].idx] = "nodir"]
  /\ UNCHANGED <<alive, nextPid, info, runningProcesses, lsProcesses, monPc, hostVars>>

\* isProcessRunning(data.pid): a dead pid deletes stored[path] in place, a live
\* one goes on to restoreProcessFromStorage(path, data).
CleanupRun(t) ==
  /\ call[t].op = "cleanup" /\ call[t].pc = "c_run"
  /\ UNCHANGED <<proxyVars, unitVars>>
  /\ IF call[t].snap[call[t].idx] \in alive
       THEN /\ call' = [call EXCEPT ![t].pc = "r_host", ![t].found[call[t].idx] = "alive"]
            /\ UNCHANGED processes
       ELSE /\ processes' = [processes EXCEPT ![call[t].idx] = NoStored]
            /\ call' = [call EXCEPT ![t].pc = "c_dealloc", ![t].found[call[t].idx] = "dead"]
  /\ UNCHANGED <<alive, nextPid, info, runningProcesses, lsProcesses, monPc, hostVars>>

\* await deallocateHost(path); continue
CleanupDealloc(t) ==
  /\ call[t].op = "cleanup" /\ call[t].pc = "c_dealloc"
  /\ UNCHANGED <<proxyVars, unitVars>>
  /\ allocations' = deallocateHost(allocations, call[t].idx)
  /\ call' = [call EXCEPT ![t].idx = NextEntry(call[t].snap, call[t].idx), ![t].pc = "c_dir"]
  /\ UNCHANGED procVars

\* restoreProcessFromStorage: a host of the record that the path does not hold
\* in the host table is put into the table (and persisted).
RestoreHost(t) ==
  /\ call[t].op = "cleanup" /\ call[t].pc = "r_host"
  /\ UNCHANGED <<proxyVars, unitVars>>
  /\ allocations' =
       IF call[t].hosts[call[t].idx] # NoHost /\ allocations[call[t].idx] = NoHost
         THEN [allocations EXCEPT ![call[t].idx] = call[t].hosts[call[t].idx]]
         ELSE allocations
  /\ call' = [call EXCEPT ![t].pc = "r_files"]
  /\ UNCHANGED procVars

\* restoreProcessFromStorage: with at least one log file of the record left, a
\* ProcessInfo with the record's pid is created (status running), registered
\* and given a liveness monitor; with none, nothing is done.
RestoreFiles(t) ==
  /\ call[t].op = "cleanup" /\ call[t].pc = "r_files"
  /\ UNCHANGED <<proxyVars, unitVars>>
  /\ \E hasOutputFile \in BOOLEAN, hasErrorFile \in BOOLEAN :
       IF hasOutputFile \/ hasErrorFile
         THEN /\ nextPid <= MaxPid
              /\ info' = [info EXCEPT ![nextPid] =
                            [path |-> call[t].idx, pid |-> call[t].snap[call[t].idx],
                             host |-> call[t].hosts[call[t].idx], status |-> "running",
                             tracked |-> TRUE, restored |-> TRUE]]
              /\ runningProcesses' = setRunningProcess(runningProcesses, call[t].idx, nextPid)
              /\ monPc' = [monPc EXCEPT ![nextPid] = "idle"]
              /\ nextPid' = nextPid + 1
              /\ call' = [call EXCEPT ![t].idx = NextEntry(call[t].snap, call[t].idx),
                                      ![t].pc = "c_dir",
                                      ![t].found[call[t].idx] = "restored"]
         ELSE /\ call' = [call EXCEPT ![t].idx = NextEntry(call[t].snap, call[t].idx),
                                      ![t].pc = "c_dir",
                                      ![t].found[call[t].idx] = "nologs"]
              /\ UNCHANGED <<info, runningProcesses, monPc, nextPid>>
  /\ UNCHANGED <<alive, processes, lsProcesses, hostVars>>

\* await storeProcesses(stored); return.  What the loop found is kept.
CleanupEnd(t) ==
  /\ call[t].op = "cleanup" /\ call[t].pc = "c_dir" /\ call[t].idx > NPaths
  /\ UNCHANGED <<proxyVars, unitVars>>
  /\ lsProcesses' = processes
  /\ call' = [call EXCEPT ![t] = [Returned(call[t], TRUE) EXCEPT !.snap = call[t].snap,
                                                                 !.hosts = call[t].hosts,
                                                                 !.found = call[t].found]]
  /\ UNCHANGED <<alive, nextPid, info, runningProcesses, processes, monPc, hostVars>>

CleanupStep(t) ==
  \/ CleanupSnap(t) \/ CleanupDir(t) \/ CleanupRun(t) \/ CleanupDealloc(t)
  \/ RestoreHost(t) \/ RestoreFiles(t) \/ CleanupEnd(t)

\* A session of at most MaxRestoreCalls calls, cleanupOrphanedProcesses among
\* them; the calls arrive one after the other, and the children of the earlier
\* session exit when they do.
MaxRestoreCalls == 2
RestoreBudget == Cardinality({t \in Calls : call[t].op # "none"}) < MaxRestoreCalls

NextRestore ==
  \/ Quiet /\ RestoreBudget /\ Launch
  \/ Quiet /\ RestoreBudget /\ \E t \in Calls : LaunchCleanup(t)
  \/ Step
  \/ \E t \in Calls : CleanupStep(t)
  \/ \E q \in OldPids : ChildExit(q)

SpecRestore == InitRestore /\ [][NextRestore]_vars

\* --------------------------------------------- the host allocation store
\* The store is followed on its own, with its LocalStorage copy, in a session
\* that finds the pool all but used up: one path per address of the pool, of
\* which the first MaxFreePaths may hold none, and one path more.
MaxFreePaths == 2
MaxHostCalls == 2
HostCalls == 1..MaxHostCalls
StorePaths == 1..(Cardinality(HostPool) + 1)
NewPath == Cardinality(HostPool) + 1
ActingPaths == (1..MaxFreePaths) \cup {NewPath}

NoHostCall == [op |-> "none", path |-> 0, active |-> {}, pc |-> "idle", before |-> <<>>,
               table |-> <<>>, host |-> NoHost, result |-> "none"]

InitHostStore ==
  /\ alive = {}
  /\ nextPid = 1
  /\ info = [r \in Pids |-> NoInfo]
  /\ runningProcesses = {}
  /\ processes = [p \in Paths |-> NoStored]
  /\ lsProcesses = [p \in Paths |-> NoStored]
  /\ monPc = [r \in Pids |-> "off"]
  /\ call = [t \in Calls |-> NoCall]
  /\ proxyStates = [p \in Paths |-> NoProxy]
  /\ isInitialized = FALSE
  /\ lsProxyStates = [p \in Paths |-> NoProxy]
  /\ servers = {}
  /\ pcall = [t \in ProxyCalls |-> NoProxyCall]
  /\ NoBuffer /\ NoReady /\ NoStopRun
  /\ \E free \in SUBSET (1..MaxFreePaths) :
       allocations = [p \in StorePaths |->
                        IF p \in free \/ p = NewPath THEN NoHost ELSE START_HOST_INDEX + p - 1]
  /\ lsAllocations = allocations
  /\ hcall = [t \in HostCalls |-> NoHostCall]

\* A cleanupStaleAllocations that keeps the allocations of the paths outside
\* the active set and removes the others.
cleanupStaleInverted(allocs, activeWorktreePaths) ==
  [p \in DOMAIN allocs |-> IF p \in activeWorktreePaths THEN NoHost ELSE allocs[p]]

\* cleanupStaleAllocations: the copy of the table after the loop.
cleanupStaleAllocations(allocs, activeWorktreePaths) ==
  [p \in DOMAIN allocs |-> IF p \in activeWorktreePaths THEN allocs[p] ELSE NoHost]

HostCanLaunch(t) ==
  /\ hcall[t].op = "none"
  /\ \A u \in HostCalls : u < t => hcall[u].op # "none"

\* allocateHost(worktreePath) up to its await: the host of an existing allocation
\* is returned; without a free address the call throws; else the table is set
\* and LocalStorage.setItem is called with it.
AllocateHostCall(t, p) ==
  /\ HostCanLaunch(t)
  /\ LET c == [NoHostCall EXCEPT !.op = "allocate", !.path = p, !.before = allocations]
     IN IF allocations[p] # NoHost
          THEN /\ hcall' = [hcall EXCEPT ![t] = [c EXCEPT !.pc = "done", !.result = "ok",
                                                          !.host = allocations[p]]]
               /\ UNCHANGED allocations
          ELSE IF FirstFreeHost(allocations) = NoHost
            THEN /\ hcall' = [hcall EXCEPT ![t] = [c EXCEPT !.pc = "done", !.result = "error"]]
                 /\ UNCHANGED allocations
            ELSE /\ allocations' = allocateHost(allocations, p)
                 /\ hcall' = [hcall EXCEPT ![t] = [c EXCEPT !.pc = "write",
                                                            !.table = allocations',
                                                            !.host = allocations'[p]]]
  /\ UNCHANGED <<procVars, call, proxyVars, bufferVars, readyVars, stopVars, lsAllocations>>

\* deallocateHost(worktreePath) up to its await: the table without the path is
\* set and LocalStorage.setItem is called with it.
DeallocateHostCall(t, p) ==
  /\ HostCanLaunch(t)
  /\ allocations' = deallocateHost(allocations, p)
  /\ hcall' = [hcall EXCEPT ![t] = [NoHostCall EXCEPT !.op = "deallocate", !.path = p,
                                      !.before = allocations, !.pc = "write",
                                      !.table = allocations']]
  /\ UNCHANGED <<procVars, call, proxyVars, bufferVars, readyVars, stopVars, lsAllocations>>

\* cleanupStaleAllocations(activeWorktreePaths) up to its await: with a change
\* the new table is set and LocalStorage.setItem is called with it.
CleanupStaleCall(t, activeWorktreePaths) ==
  /\ HostCanLaunch(t)
  /\ LET c == [NoHostCall EXCEPT !.op = "cleanupStale", !.active = activeWorktreePaths,
                                 !.before = allocations]
         after == cleanupStaleAllocations(allocations, activeWorktreePaths)
     IN IF after = allocations
          THEN /\ hcall' = [hcall EXCEPT ![t] = [c EXCEPT !.pc = "done", !.result = "ok"]]
               /\ UNCHANGED allocations
          ELSE /\ allocations' = after
               /\ hcall' = [hcall EXCEPT ![t] = [c EXCEPT !.pc = "write", !.table = after]]
  /\ UNCHANGED <<procVars, call, proxyVars, bufferVars, readyVars, stopVars, lsAllocations>>

\* The LocalStorage.setItem of a call completes and the call returns.  Each call
\* awaits its own write; the writes in flight complete in any order.
SetItemLands(t) ==
  /\ hcall[t].pc = "write"
  /\ lsAllocations' = hcall[t].table
  /\ hcall' = [hcall EXCEPT ![t].pc = "done", ![t].result = "ok"]
  /\ UNCHANGED <<supervisorVars, proxyVars, bufferVars, readyVars, stopVars>>

NextHostStore ==
  \/ \E t \in HostCalls, p \in ActingPaths : AllocateHostCall(t, p)
  \/ \E t \in HostCalls, p \in ActingPaths : DeallocateHostCall(t, p)
  \/ \E t \in HostCalls, gone \in SUBSET ActingPaths : CleanupStaleCall(t, StorePaths \ gone)
  \/ \E t \in HostCalls : SetItemLands(t)

SpecHostStore == InitHostStore /\ [][NextHostStore]_vars

\* ------------------------------------------- one stopProcess, kill by kill
\* stopProcess(worktreePath) followed on its own through killProcess and the
\* writes that come after: every shell command of killProcess may fail, a
\* -TERM that is delivered may be survived, and a LocalStorage.setItem may
\* reject.  stopRun holds the call's position, what it acts on (the record, its
\* process, the persisted record and the host allocation of the path, in memory
\* and in LocalStorage) and the kills that failed.
KillKinds == {"group", "session", "descendant", "pid", "orphan"}

NoStopCall == [pc |-> "idle", force |-> FALSE, inRegistry |-> FALSE, status |-> "none",
               pidAlive |-> FALSE, stored |-> FALSE, lsStored |-> FALSE,
               allocated |-> FALSE, lsAllocated |-> FALSE, failed |-> {}]

\* Before the call: the path may have a running record, whose process may be
\* alive, a persisted record and a host allocation.
InitStop ==
  /\ InitStores /\ NoBuffer /\ NoReady /\ NoHostStore /\ killPass = <<>>
  /\ \E hasRecord \in BOOLEAN, isAlive \in BOOLEAN, isStored \in BOOLEAN, hasHost \in BOOLEAN :
       stopRun = [NoStopCall EXCEPT !.inRegistry = hasRecord,
                                    !.status = IF hasRecord THEN "running" ELSE "none",
                                    !.pidAlive = hasRecord /\ isAlive,
                                    !.stored = isStored, !.lsStored = isStored,
                                    !.allocated = hasHost, !.lsAllocated = hasHost]

\* What a signal that was sent does to the process: -9 ends it, -TERM may.
Signalled(c, fails, dies) == c.pidAlive /\ (fails \/ (~c.force /\ ~dies))

\* const running = getRunningProcess(worktreePath); if (running) the tails are
\* killed and killProcess(info.pid) issues its group kill.
StopEnter ==
  /\ stopRun.pc = "idle"
  /\ stopRun' = [stopRun EXCEPT !.pc = IF stopRun.inRegistry THEN "group" ELSE "chk"]
  /\ UNCHANGED <<supervisorVars, proxyVars, bufferVars, readyVars, hostStoreVars, killPass>>

\* killProcess: kill -TERM|-9 -- -pid has ended; a failure is caught.
KillGroup ==
  /\ stopRun.pc = "group"
  /\ \E fails \in BOOLEAN, dies \in BOOLEAN :
       stopRun' = [stopRun EXCEPT !.pc = "session",
                                  !.pidAlive = Signalled(stopRun, fails, dies),
                                  !.failed = IF fails THEN @ \cup {"group"} ELSE @]
  /\ UNCHANGED <<supervisorVars, proxyVars, bufferVars, readyVars, hostStoreVars, killPass>>

\* killProcess: the processes of the session are listed and killed; a failure
\* of the listing or of a kill is caught.
KillSession ==
  /\ stopRun.pc = "session"
  /\ \E fails \in BOOLEAN :
       stopRun' = [stopRun EXCEPT !.pc = "descendant",
                                  !.failed = IF fails THEN @ \cup {"session"} ELSE @]
  /\ UNCHANGED <<supervisorVars, proxyVars, bufferVars, readyVars, hostStoreVars, killPass>>

\* killProcess: getAllDescendantPids (a failing pgrep yields no children) and
\* the kill of each descendant; a failure is caught.
KillDescendants ==
  /\ stopRun.pc = "descendant"
  /\ \E fails \in BOOLEAN :
       stopRun' = [stopRun EXCEPT !.pc = "pid",
                                  !.failed = IF fails THEN @ \cup {"descendant"} ELSE @]
  /\ UNCHANGED <<supervisorVars, proxyVars, bufferVars, readyVars, hostStoreVars, killPass>>

\* A stopProcess that looks again after every pass, the forceful one included.
KillPidThenRecheck ==
  /\ stopRun.pc = "pid"
  /\ \E fails \in BOOLEAN, dies \in BOOLEAN :
       stopRun' = [stopRun EXCEPT !.pc = "recheck",
                                  !.pidAlive = Signalled(stopRun, fails, dies),
                                  !.failed = IF fails THEN @ \cup {"pid"} ELSE @]
  /\ UNCHANGED <<supervisorVars, proxyVars, bufferVars, readyVars, hostStoreVars, killPass>>

\* killProcess: kill -15|-9 pid and the pkill -P fallback; a failure is caught
\* and killProcess returns.  The graceful pass is followed by the 500 ms wait.
KillPid ==
  /\ stopRun.pc = "pid"
  /\ \E fails \in BOOLEAN, dies \in BOOLEAN :
       stopRun' = [stopRun EXCEPT !.pc = IF stopRun.force THEN "sweep" ELSE "recheck",
                                  !.pidAlive = Signalled(stopRun, fails, dies),
                                  !.failed = IF fails THEN @ \cup {"pid"} ELSE @]
  /\ UNCHANGED <<supervisorVars, proxyVars, bufferVars, readyVars, hostStoreVars, killPass>>

\* const isStillRunning = await isProcessRunning(info.pid), false when ps fails;
\* if (isStillRunning) await killProcess(info.pid, true).
StillRunning ==
  /\ stopRun.pc = "recheck"
  /\ \E psFails \in BOOLEAN :
       stopRun' = IF stopRun.pidAlive /\ ~psFails
                  THEN [stopRun EXCEPT !.pc = "group", !.force = TRUE]
                  ELSE [stopRun EXCEPT !.pc = "sweep"]
  /\ UNCHANGED <<supervisorVars, proxyVars, bufferVars, readyVars, hostStoreVars, killPass>>

\* The sweep of leftover processes of the directory (failures caught), then
\* info.status = "stopped"; removeRunningProcess(worktreePath), and
\* getStoredProcesses is awaited.
KillOrphans ==
  /\ stopRun.pc = "sweep"
  /\ \E fails \in BOOLEAN :
       stopRun' = [stopRun EXCEPT !.pc = "chk", !.status = "stopped", !.inRegistry = FALSE,
                                  !.failed = IF fails THEN @ \cup {"orphan"} ELSE @]
  /\ UNCHANGED <<supervisorVars, proxyVars, bufferVars, readyVars, hostStoreVars, killPass>>

\* if (stored[worktreePath]) await deallocateHost(worktreePath): the store drops
\* the allocation in memory and issues its LocalStorage.setItem.
ReadStored ==
  /\ stopRun.pc = "chk"
  /\ stopRun' = IF stopRun.stored THEN [stopRun EXCEPT !.pc = "dealloc", !.allocated = FALSE]
                ELSE [stopRun EXCEPT !.pc = "done"]
  /\ UNCHANGED <<supervisorVars, proxyVars, bufferVars, readyVars, hostStoreVars, killPass>>

\* The setItem of deallocateHost ends: a rejection is not caught by
\* deallocateHost nor by stopProcess, which rejects in turn; else
\* delete stored[worktreePath] and storeProcesses(stored) sets the table and
\* issues its setItem.
ReleaseHost ==
  /\ stopRun.pc = "dealloc"
  /\ \E rejects \in BOOLEAN :
       stopRun' = IF rejects THEN [stopRun EXCEPT !.pc = "raised"]
                  ELSE [stopRun EXCEPT !.pc = "del", !.lsAllocated = FALSE, !.stored = FALSE]
  /\ UNCHANGED <<supervisorVars, proxyVars, bufferVars, readyVars, hostStoreVars, killPass>>

\* The setItem of updateProcesses ends: a rejection makes stopProcess reject.
RewriteStored ==
  /\ stopRun.pc = "del"
  /\ \E rejects \in BOOLEAN :
       stopRun' = IF rejects THEN [stopRun EXCEPT !.pc = "raised"]
                  ELSE [stopRun EXCEPT !.pc = "done", !.lsStored = FALSE]
  /\ UNCHANGED <<supervisorVars, proxyVars, bufferVars, readyVars, hostStoreVars, killPass>>

NextStop ==
  \/ StopEnter
  \/ KillGroup \/ KillSession \/ KillDescendants \/ KillPid
  \/ StillRunning
  \/ KillOrphans
  \/ ReadStored \/ ReleaseHost \/ RewriteStored

SpecStop == InitStop /\ [][NextStop]_vars

\* Every await of stopProcess is on a shell command, a timer or a storage
\* write, each of which ends: the call takes its next step.
SpecStopLive == SpecStop /\ WF_vars(NextStop)

\* ---------------------------------------- one killProcess pass, its signals
\* killProcess(pid, force) followed over a process tree.  The record's pid is
\* ThePid; the other processes are TreeNodes, each with a parent: ThePid,
\* another node, or Orphaned (its parent has exited).  pgrep -P of a process in
\* blind lists nothing (pgrep fails or the process is gone).
MaxTreeNodes == 3
TreeNodes == 1..MaxTreeNodes
ThePid == 0
Orphaned == MaxTreeNodes + 1

\* n is below a (a is a proper ancestor of n), looking up at most k parents.
RECURSIVE Below(_, _, _, _)
Below(parent, n, a, k) ==
  /\ k > 0 /\ n \in TreeNodes
  /\ parent[n] = a \/ Below(parent, parent[n], a, k - 1)

\* The parent tables without a cycle.
Trees ==
  {parent \in [TreeNodes -> (TreeNodes \cup {ThePid, Orphaned})] :
     \A n \in TreeNodes : ~Below(parent, n, n, MaxTreeNodes)}

\* The pids of a set in the order ps and pgrep list them.
RECURSIVE PidList(_)
PidList(S) ==
  IF S = {} THEN <<>>
  ELSE LET m == CHOOSE x \in S : \A y \in S : x <= y IN <<m>> \o PidList(S \ {m})

getChildPids(parent, blind, parentPid) ==
  IF parentPid \in blind THEN <<>> ELSE PidList({n \in TreeNodes : parent[n] = parentPid})

\* const allPids = [...children]; for (const childPid of children)
\* allPids.push(...(await getAllDescendantPids(childPid)))
RECURSIVE getAllDescendantPids(_, _, _)
RECURSIVE DescendantsOfEach(_, _, _)
getAllDescendantPids(parent, blind, pid) ==
  getChildPids(parent, blind, pid) \o DescendantsOfEach(parent, blind, getChildPids(parent, blind, pid))

DescendantsOfEach(parent, blind, children) ==
  IF children = <<>> THEN <<>>
  ELSE getAllDescendantPids(parent, blind, Head(children))
         \o DescendantsOfEach(parent, blind, Tail(children))

Reverse(s) == [i \in 1..Len(s) |-> s[Len(s) + 1 - i]]

\* A killProcess that kills the descendants in the order they were listed.
killOrderAsListed(parent, blind, pid) == getAllDescendantPids(parent, blind, pid)

\* for (const childPid of childPids.reverse())
killOrder(parent, blind, pid) == Reverse(getAllDescendantPids(parent, blind, pid))

NoKillPass == [parent |-> <<>>, blind |-> {}, session |-> {}, force |-> FALSE, pc |-> "idle",
               signals |-> <<>>, todo |-> <<>>]

\* killProcess is called for a pid with some process tree below it, some of
\* whose processes are in the pid's session.
InitKillPass ==
  /\ InitStores /\ NoBuffer /\ NoReady /\ NoHostStore /\ stopRun = <<>>
  /\ \E parent \in Trees, blind \in SUBSET (TreeNodes \cup {ThePid}),
        session \in SUBSET TreeNodes, force \in BOOLEAN :
       killPass = [NoKillPass EXCEPT !.parent = parent, !.blind = blind, !.session = session,
                                     !.force = force, !.pc = "group"]

\* kill -TERM|-9 -- -pid, then the ps listing of the session (none if ps fails).
PassGroup ==
  /\ killPass.pc = "group"
  /\ \E psFails \in BOOLEAN :
       killPass' = [killPass EXCEPT !.signals = Append(@, <<"group", ThePid>>),
                                    !.pc = "session",
                                    !.todo = IF psFails THEN <<>> ELSE PidList(killPass.session)]
  /\ UNCHANGED <<supervisorVars, proxyVars, bufferVars, readyVars, hostStoreVars, stopRun>>

\* for (const spid of sessionPids) kill spid
PassSessionKill ==
  /\ killPass.pc = "session" /\ killPass.todo # <<>>
  /\ killPass' = [killPass EXCEPT !.signals = Append(@, <<"session", Head(killPass.todo)>>),
                                  !.todo = Tail(@)]
  /\ UNCHANGED <<supervisorVars, proxyVars, bufferVars, readyVars, hostStoreVars, stopRun>>

\* const childPids = await getAllDescendantPids(pid)
PassListDescendants ==
  /\ killPass.pc = "session" /\ killPass.todo = <<>>
  /\ killPass' = [killPass EXCEPT !.pc = "descendant",
                                  !.todo = killOrder(killPass.parent, killPass.blind, ThePid)]
  /\ UNCHANGED <<supervisorVars, proxyVars, bufferVars, readyVars, hostStoreVars, stopRun>>

\* for (const childPid of childPids.reverse()) kill childPid
PassDescendantKill ==
  /\ killPass.pc = "descendant" /\ killPass.todo # <<>>
  /\ killPass' = [killPass EXCEPT !.signals = Append(@, <<"descendant", Head(killPass.todo)>>),
                                  !.todo = Tail(@)]
  /\ UNCHANGED <<supervisorVars, proxyVars, bufferVars, readyVars, hostStoreVars, stopRun>>

\* kill -15|-9 pid
PassPid ==
  /\ killPass.pc = "descendant" /\ killPass.todo = <<>>
  /\ killPass' = [killPass EXCEPT !.signals = Append(@, <<"pid", ThePid>>), !.pc = "fallback"]
  /\ UNCHANGED <<supervisorVars, proxyVars, bufferVars, readyVars, hostStoreVars, stopRun>>

\* pkill -P pid
PassFallback ==
  /\ killPass.pc = "fallback"
  /\ killPass' = [killPass EXCEPT !.signals = Append(@, <<"pkill", ThePid>>), !.pc = "done"]
  /\ UNCHANGED <<supervisorVars, proxyVars, bufferVars, readyVars, hostStoreVars, stopRun>>

NextKillPass ==
  \/ PassGroup
  \/ PassSessionKill
  \/ PassListDescendants
  \/ PassDescendantKill
  \/ PassPid
  \/ PassFallback

SpecKillPass == InitKillPass /\ [][NextKillPass]_vars

\* ============================================================ properties
\* C1: in every reachable state, no two distinct paths whose server record is
\* running (in the registry, status running) carry the same loopback host.
C1_RunningHostsDistinct ==
  \A r \in runningProcesses, q \in runningProcesses :
    (/\ info[r].path # info[q].path
     /\ info[r].status = "running" /\ info[q].status = "running"
     /\ info[r].host # NoHost)
    => info[r].host # info[q].host


\* C2: the registry holds at most one record per path whose status is starting
\* or running, and a startProcess that found a record for its path spawns only
\* after that record is stopped (status stopped, its pid dead).
RegistryRecords(p) ==
  {r \in runningProcesses : info[r].path = p /\ info[r].status \in {"starting", "running"}}

C3_OneLiveChild ==
  \A t \in Calls, u \in Calls :
    (/\ t < u
     /\ call[t].op = "start" /\ call[u].op = "start"
     /\ call[t].path = call[u].path
     /\ t \in call[u].during
     /\ call[t].pc = "done" /\ call[u].pc = "done"
     /\ call[t].ok /\ call[u].ok)
    => ~(info[call[t].rec].pid \in alive /\ info[call[u].rec].pid \in alive)

\* The calls issued after call t.
Later(t) == {u \in Calls : u > t /\ call[u].op # "none"}

\* C4: once stopProcess(P) has returned and a subsequent startProcess(P) has
\* returned, the registry entry and the persisted entry of P are those of the new
\* pid and P's host allocation is present, for as long as the new process is
\* alive and no further call was issued.
C4_NewRecordStays ==
  \A s \in Calls, t \in Calls :
    (/\ s < t /\ Later(t) = {}
     /\ call[s].op = "stop" /\ call[s].pc = "done"
     /\ call[t].op = "start" /\ call[t].pc = "done" /\ call[t].ok
     /\ call[s].path = call[t].path
     /\ info[call[t].rec].pid \in alive)
    => /\ getRunningProcess(runningProcesses, call[t].path) = call[t].rec
       /\ processes[call[t].path].pid = info[call[t].rec].pid
       /\ lsProcesses[call[t].path].pid = info[call[t].rec].pid
       /\ info[call[t].rec].host # NoHost
             => allocations[call[t].path] = info[call[t].rec].host

\* C5: a startProcess and a stopProcess for one path that overlapped never end,
\* once both have returned, with the child the start spawned alive and without
\* a registry record (no liveness monitor having fired).
C5_NoLiveChildWithoutRecord ==
  \A t \in Calls, u \in Calls :
    (/\ call[t].op = "start" /\ call[u].op = "stop"
     /\ call[t].path = call[u].path
     /\ t \in call[u].during \/ u \in call[t].during
     /\ call[t].pc = "done" /\ call[u].pc = "done" /\ call[t].ok
     /\ Quiet
     /\ \A r \in Pids : monPc[r] \in {"off", "idle"}
     /\ info[call[t].rec].pid \in alive)
    => call[t].rec \in runningProcesses

\* C6: after a tracked startProcess(P) with an allocated host has returned and a
\* following stopProcess(P) has returned, P has no host allocation, no registry
\* record and no persisted process record.
C6_StopReleasesAll ==
  \A s \in Calls, t \in Calls :
    (/\ s < t /\ Later(t) = {}
     /\ call[s].op = "start" /\ call[s].pc = "done" /\ call[s].ok
     /\ info[call[s].rec].host # NoHost
     /\ call[t].op = "stop" /\ call[t].pc = "done"
     /\ call[s].path = call[t].path
     /\ \A u \in Calls : (s < u /\ u < t) => call[u].path # call[s].path
     /\ \A r \in Pids : monPc[r] \in {"off", "idle", "end"})
    => /\ allocations[call[t].path] = NoHost
       /\ getRunningProcess(runningProcesses, call[t].path) = 0
       /\ processes[call[t].path] = NoStored
       /\ lsProcesses[call[t].path] = NoStored

\* C7: a stopProcess(P) that finds neither a registry record nor a persisted
\* record for P returns without error in one step that kills no process and
\* leaves the registry, the persisted records and the host allocations as they
\* were; after a stopProcess(P) that ran alone on P has returned, P has neither
\* record, so that a second stopProcess(P) is such a call and changes nothing.
C7_StopAbsent(t) ==
  /\ call[t].op = "stop" /\ call[t].pc = "chk" /\ call[t].running = 0
  /\ processes[call[t].path] = NoStored
  /\ call'[t] # call[t]

C7_StoppedIsAbsent ==
  \A t \in Calls :
    (/\ call[t].op = "stop" /\ call[t].pc = "done" /\ call[t].during = {}
     /\ \A u \in Later(t) : call[u].path # call[t].path)
    => /\ getRunningProcess(runningProcesses, call[t].path) = 0
       /\ processes[call[t].path] = NoStored

C7_StopAbsentIsNoOp ==
  /\ []C7_StoppedIsAbsent
  /\ [][\A t \in Calls : C7_StopAbsent(t) =>
          /\ call'[t].pc = "done" /\ call'[t].ok
          /\ UNCHANGED <<procVars, hostVars>>]_vars

\* C7 witness: stopProcess(P) has returned for a path P on which no server was
\* ever spawned and whose host allocation, made for a start request that failed
\* its validation, is still in the table.
C7_Witness ==
  \E s \in Calls, t \in Calls :
    /\ s < t /\ call[s].path = call[t].path
    /\ call[s].op = "start" /\ call[s].pc = "done" /\ ~call[s].ok
    /\ call[t].op = "stop" /\ call[t].pc = "done" /\ call[t].ok
    /\ \A r \in Pids : info[r].path # call[t].path
    /\ allocations[call[t].path] # NoHost

\* The paths that hold a ProxyState with status active.
ActivePaths == {p \in Paths : proxyStates[p].status = "active"}

\* C8: after any sequence of completed setupProxyRoutes and removeProxyRoutes
\* calls, with any paths and port lists, at most one path has a ProxyState
\* with status active.
C8_AtMostOneActive ==
  ProxyQuiet => Cardinality(ActivePaths) <= 1

\* C9: when setupProxyRoutes(A, ...) found an active state of another path B
\* with overlapping ports and has returned success, exactly one of A and B is
\* active (no call has been issued since).
C9_ExactlyOneActive ==
  \A t \in ProxyCalls :
    (/\ pcall[t].op = "setup" /\ pcall[t].pc = "done" /\ pcall[t].ok
     /\ \A u \in ProxyCalls : u > t => pcall[u].op = "none")
    => \A b \in pcall[t].saw :
         /\ pcall[t].path \in ActivePaths \/ b \in ActivePaths
         /\ ~(pcall[t].path \in ActivePaths /\ b \in ActivePaths)

\* C10: two setupProxyRoutes calls for different paths with overlapping ports
\* that overlapped in time, and were the only calls, never end with both paths
\* holding an active ProxyState.
C10_ConcurrentSetupsOneActive ==
  \A t \in ProxyCalls, u \in ProxyCalls :
    (/\ t \in pcall[u].during
     /\ pcall[t].op = "setup" /\ pcall[u].op = "setup"
     /\ pcall[t].pc = "done" /\ pcall[u].pc = "done"
     /\ pcall[t].path # pcall[u].path
     /\ RangeOf(pcall[t].ports) \cap RangeOf(pcall[u].ports) # {}
     /\ \A w \in ProxyCalls \ {t, u} : pcall[w].op = "none")
    => ~(pcall[t].path \in ActivePaths /\ pcall[u].path \in ActivePaths)

\* C11: when stopProcess returns for a path whose running record (with a host)
\* it has stopped, or when the liveness monitor of such a record has finished
\* handling the death of its process, the path has no ProxyState with status
\* active.
C11_ProxyReleasedOnStop ==
  [][/\ \A t \in Calls :
          (/\ call[t].op = "stop" /\ call[t].pc # "done" /\ call'[t].pc = "done"
           /\ call[t].running # 0
           /\ info[call[t].running].host # NoHost)
          => proxyStates'[call[t].path].status # "active"
     /\ \A r \in Pids :
          (/\ monPc[r] \notin {"off", "end"} /\ monPc'[r] = "end"
           /\ info[r].host # NoHost)
          => proxyStates'[info[r].path].status # "active"]_vars

\* Path of record r has seen no call but the startProcess that spawned r.
Undisturbed(r) ==
  \A t \in Calls : call[t].path = info[r].path => (call[t].op = "start" /\ call[t].rec = r)

\* startProcess has returned record r to its caller and the liveness monitor
\* of r is polling, between two ticks.
Tracked(r) ==
  /\ \E t \in Calls : call[t].op = "start" /\ call[t].rec = r /\ call[t].pc = "done" /\ call[t].ok
  /\ monPc[r] = "idle"

\* Record r is stopped and its path has no registry record, no persisted
\* record and no host allocation.
Released(r) ==
  /\ info[r].status = "stopped"
  /\ getRunningProcess(runningProcesses, info[r].path) = 0
  /\ processes[info[r].path] = NoStored
  /\ lsProcesses[info[r].path] = NoStored
  /\ allocations[info[r].path] = NoHost

\* C12: if the child process of a record that startProcess returned dies and no stopProcess (or
\* other call) is made for its path, then with the monitor scheduled fairly the
\* record is eventually stopped and its path is absent from the registry and
\* from the persisted records and has no host allocation.
C12_DeathIsCleanedUp ==
  \A r \in Pids :
    (info[r].pid # NoPid /\ info[r].pid \notin alive /\ Tracked(r) /\ Undisturbed(r))
      ~> (~Undisturbed(r) \/ Released(r))

\* The last k items of a sequence, in order.
LastOf(s, k) == SubSeq(s, Len(s) - k + 1, Len(s))

Min(a, b) == IF a < b THEN a ELSE b

\* C13: for a CircularBuffer of capacity N and n pushed non-empty lines,
\* toArray() is the last min(n, N) pushed lines in push order, of length
\* min(n, N), never more than N.
C13_ToArrayIsLastLines ==
  (maxSize > 0 /\ \A i \in 1..Len(pushed) : pushed[i] # "")
    => /\ toArray(buffer, pointer, size, maxSize) = LastOf(pushed, Min(Len(pushed), maxSize))
       /\ Len(toArray(buffer, pointer, size, maxSize)) = Min(Len(pushed), maxSize)
       /\ Len(toArray(buffer, pointer, size, maxSize)) <= maxSize

\* More non-empty lines than the capacity were pushed, the oldest were evicted
\* and the pointer is inside the array.
C13_Witness ==
  /\ maxSize > 1 /\ Len(pushed) > maxSize /\ pointer # 0
  /\ \A i \in 1..Len(pushed) : pushed[i] # ""
  /\ toArray(buffer, pointer, size, maxSize) = LastOf(pushed, maxSize)
  /\ pushed[1] # pushed[Len(pushed) - maxSize + 1]

\* C14: the call resolves success when a line containing "Local: http://..." is
\* the first matching line delivered, whether or not startProcess has returned
\* by then, and failure when a line containing "Cannot find module" is the first.
C14_FirstMatchingLineDecides ==
  (ready.result # "none" /\ readyHist.cause # "reject")
    => /\ readyHist.firstMatch = "success" => ready.result = "success"
       /\ readyHist.firstMatch = "failure" => ready.result = "failure"

\* The call is resolved, with a result.
Resolved == ready.resolved /\ ready.result # "none"

\* C15: every call eventually resolves: the timeoutCheck callback resolves it
\* when output was received and none for longer than the idle window, and when
\* the total timeout has elapsed (output or not); a rejection of startProcess
\* resolves it with failure.
C15_AlwaysResolves ==
  /\ <>Resolved
  /\ [][/\ (/\ ready'.now = ready.now + 1
            /\ \/ ready.hasReceivedOutput /\ ready'.now - ready.lastOutputTime > IdleTimeoutTicks
               \/ ready'.now > ready.total)
           => Resolved'
        /\ (ready.phase # "rejected" /\ ready'.phase = "rejected")
           => (Resolved' /\ (~ready.resolved => ready'.result = "failure"))]_vars

\* A call that received output, then none for longer than the idle window, and
\* was resolved by the idle branch before the total timeout.
C15_Witness ==
  /\ Resolved /\ readyHist.cause = "idle"
  /\ ready.hasReceivedOutput /\ ready.now - ready.lastOutputTime > IdleTimeoutTicks
  /\ ready.now <= ready.total

\* C16: a call resolved by the total timeout, no success line having been
\* delivered, reports failure, also when the process is alive and has produced output.
C16_TotalTimeoutFails ==
  (Resolved /\ readyHist.cause = "total" /\ ~readyHist.sawSuccess) => ready.result = "failure"

\* cleanupOrphanedProcesses in slot t returns at this step.
CleanupReturns(t) == call[t].op = "cleanup" /\ call[t].pc # "done" /\ call'[t].pc = "done"

\* C17: when cleanupOrphanedProcesses returns, every path whose persisted record
\* it found with a dead pid or a missing directory has no persisted record, no
\* registry record and no host allocation.
C17_OrphansRemoved ==
  [][\A t \in Calls : CleanupReturns(t) =>
       \A p \in Paths :
         call[t].found[p] \in {"nodir", "dead"} =>
           /\ processes'[p] = NoStored /\ lsProcesses'[p] = NoStored
           /\ getRunningProcess(runningProcesses', p) = 0
           /\ allocations'[p] = NoHost]_vars

\* C18: when cleanupOrphanedProcesses returns, every path whose persisted record
\* it found with an existing directory and a live pid (still alive at the return)
\* has a running registry record with the pid and the host of the persisted
\* record and a polling monitor, log files or not; the call spawns no child.
C18_LiveRecordsRestored ==
  [][\A t \in Calls : CleanupReturns(t) =>
       /\ alive' \subseteq alive
       /\ \A p \in Paths :
            (call[t].found[p] \in {"alive", "restored", "nologs"} /\ call[t].snap[p] \in alive') =>
              LET r == getRunningProcess(runningProcesses', p)
              IN /\ r # 0
                 /\ info'[r].status = "running"
                 /\ info'[r].pid = call[t].snap[p]
                 /\ info'[r].host = call[t].hosts[p]
                 /\ monPc'[r] = "idle"]_vars

\* allocateHost(path) of the start request in slot t returns at this step.
AllocReturns(t) == call[t].op = "start" /\ call[t].pc = "alloc" /\ call'[t].pc = "begin"

\* C19: allocateHost(path) for a path that holds an allocation returns the host
\* it holds and leaves the table unchanged; a repeated call changes nothing more.
C19_AllocateHostIdempotent ==
  /\ [](\A p \in Paths :
          /\ allocations[p] # NoHost => allocateHost(allocations, p) = allocations
          /\ allocateHost(allocateHost(allocations, p), p) = allocateHost(allocations, p))
  /\ [][\A t \in Calls :
          (AllocReturns(t) /\ allocations[call[t].path] # NoHost)
            => /\ call'[t].host = allocations[call[t].path]
               /\ allocations' = allocations]_vars

\* A second start request for a path has its allocateHost return the host that
\* the path's running record of the first request holds.
C19_Witness ==
  \E t, u \in Calls :
    /\ t < u /\ call[t].op = "start" /\ call[u].op = "start" /\ call[t].path = call[u].path
    /\ call[t].rec # 0 /\ call[t].rec \in runningProcesses
    /\ info[call[t].rec].status = "running" /\ info[call[t].rec].pid \in alive
    /\ info[call[t].rec].host # NoHost
    /\ call[u].pc = "begin" /\ call[u].host = info[call[t].rec].host
    /\ allocations[call[u].path] = call[u].host

\* C20: allocateHost(path) for a path without an allocation returns the lowest
\* address of the pool that no path holds and binds it to the path; a released
\* address is handed out again when it is the lowest.
C20_LowestFreeHost ==
  [][\A t \in Calls :
       (AllocReturns(t) /\ allocations[call[t].path] = NoHost)
         => /\ call'[t].host \in HostPool
            /\ call'[t].host \notin usedHosts(allocations)
            /\ \A j \in HostPool : j < call'[t].host => j \in usedHosts(allocations)
            /\ allocations' = [allocations EXCEPT ![call[t].path] = call'[t].host]]_vars

\* The record of one path held the first address of the pool and was stopped,
\* the address was released, and the allocateHost of a start request for another
\* path has returned that address.
C20_Witness ==
  \E r \in Pids, u \in Calls :
    /\ info[r].host = START_HOST_INDEX /\ info[r].status = "stopped"
    /\ call[u].op = "start" /\ call[u].pc = "begin" /\ call[u].path # info[r].path
    /\ call[u].host = START_HOST_INDEX
    /\ allocations[call[u].path] = START_HOST_INDEX
    /\ allocations[info[r].path] = NoHost

\* The host store call in slot t is made at this step.
HostCallMade(t, op) == hcall[t].op = "none" /\ hcall'[t].op = op

\* Every address of the pool is held by a path other than p.
PoolHeldByOthers(allocs, p) ==
  \A h \in HostPool : \E q \in DOMAIN allocs : q # p /\ allocs[q] = h

\* C21: allocateHost for a new path, every address of the pool being held by
\* another path, fails with an error; the table in memory and the persisted
\* table are as before and no write is issued.
C21_ExhaustedPoolFails ==
  [][\A t \in HostCalls :
       (/\ HostCallMade(t, "allocate")
        /\ allocations[hcall'[t].path] = NoHost
        /\ PoolHeldByOthers(allocations, hcall'[t].path))
         => /\ hcall'[t].result = "error" /\ hcall'[t].pc = "done"
            /\ allocations' = allocations
            /\ lsAllocations' = lsAllocations]_vars

\* An allocateHost for the new path that found the pool used up has failed.
C21_Witness ==
  \E t \in HostCalls :
    /\ hcall[t].op = "allocate" /\ hcall[t].path = NewPath /\ hcall[t].result = "error"
    /\ PoolHeldByOthers(hcall[t].before, NewPath)
    /\ allocations = hcall[t].before /\ lsAllocations = allocations

\* C22: cleanupStaleAllocations(activePaths) removes the allocation of every
\* path outside activePaths and keeps that of every path inside, host unchanged.
C22_CleanupStaleKeepsActive ==
  [][\A t \in HostCalls :
       HostCallMade(t, "cleanupStale")
         => \A p \in DOMAIN allocations :
              /\ p \notin hcall'[t].active => allocations'[p] = NoHost
              /\ p \in hcall'[t].active => allocations'[p] = allocations[p]]_vars

\* A cleanupStaleAllocations has removed the allocation of a path outside the
\* active set and kept that of an acting path inside it.
C22_Witness ==
  \E t \in HostCalls, p, q \in ActingPaths :
    /\ hcall[t].op = "cleanupStale" /\ hcall[t].pc = "done" /\ hcall[t].table # <<>>
    /\ p \notin hcall[t].active /\ hcall[t].before[p] # NoHost /\ hcall[t].table[p] = NoHost
    /\ q \in hcall[t].active /\ hcall[t].before[q] # NoHost
    /\ hcall[t].table[q] = hcall[t].before[q]
    /\ allocations = hcall[t].table

\* C23: when no mutation of the host store is in flight, the persisted table
\* equals the table in memory, the mutations having been for different paths.
C23_PersistedEqualsMemory ==
  (/\ \A t \in DOMAIN hcall : hcall[t].pc # "write"
   /\ \A t, u \in DOMAIN hcall :
        (t # u /\ hcall[t].op # "none" /\ hcall[u].op # "none") => hcall[t].path # hcall[u].path)
    => lsAllocations = allocations


\* setupProxyRoutes returns false from its catch block: a PUT had failed.
SetupFails(t) == pcall[t].op = "setup" /\ pcall[t].pc = "s_clean" /\ pcall'[t].pc = "done"

\* C24: when setupProxyRoutes(path, ...) returns failure after the PUT of some
\* port failed, no route of the path is registered at the external proxy and
\* the store holds no ProxyState with status active for the path.
C24_FailedSetupLeavesNothing ==
  [][\A t \in ProxyCalls :
       SetupFails(t) => /\ \A s \in servers' : s[1] # pcall[t].path
                        /\ proxyStates'[pcall[t].path].status # "active"]_vars


\* removeProxyRoutes, called on its own, returns true.
RemoveSucceeds(t) ==
  pcall[t].op = "remove" /\ pcall[t].pc = "r_del" /\ pcall'[t].pc = "done" /\ pcall'[t].ok

\* C25: when removeProxyRoutes(path) returns true, the path has no ProxyState
\* and none of its routes is registered at the external proxy.
C25_RemoveLeavesNoRoute ==
  [][\A t \in ProxyCalls :
       RemoveSucceeds(t) => /\ proxyStates'[pcall[t].path] = NoProxy
                            /\ \A s \in servers' : s[1] # pcall[t].path]_vars


\* C26: an active ProxyState is saved for a path only while the path has a
\* record in status running with a host; startProxy for any other path saves
\* no ProxyState.
C26_ActiveOnlyForRunningHost ==
  [][\A p \in Paths :
       (proxyStates'[p].status = "active" /\ proxyStates'[p] # proxyStates[p])
         => HasRunningHost(p)]_vars


\* C27: the status of a record that is stopped never changes again; a later
\* start of the same path builds a new record.
C27_StoppedIsFinal ==
  [][\A r \in Pids : info[r].status = "stopped" => info'[r].status = "stopped"]_vars

\* A path has a stopped record and, from a later start, a running one.
C27_Witness ==
  \E r \in Pids, q \in Pids :
    /\ r < q /\ info[r].path = info[q].path
    /\ info[r].status = "stopped" /\ info[q].status = "running"


\* stopProcess in slot t sends its kill signals to the pid of the record it read.
KillSent(t) == InStop(t) /\ call[t].pc = "kill" /\ call'[t].pc = "fin"

\* C28: no kill signal is sent to the pid of a record whose status is stopped,
\* here for records that a stopProcess (not the liveness monitor) has stopped.
C28_NoKillAfterStopped ==
  [][\A t \in Calls :
       (KillSent(t) /\ monPc[call[t].running] = "idle")
         => info[call[t].running].status # "stopped"]_vars


\* startProcess in slot t fails (throws).
StartFails(t) ==
  call[t].op = "start" /\ call[t].pc # "done" /\ call'[t].pc = "done" /\ ~call'[t].ok

\* C29: a startProcess that fails does so at its validation, before it stops an
\* existing record and before it spawns: the registry, the records, the
\* persisted records, the host allocations and the child processes are as
\* they were.
C29_FailedStartChangesNothing ==
  [][\A t \in Calls :
       StartFails(t) => /\ call[t].pc = "begin"
                        /\ UNCHANGED <<runningProcesses, info, processes, lsProcesses,
                                       allocations, alive, nextPid>>]_vars

\* A start has failed for a path that has a running record with a live child.
C29_Witness ==
  \E t \in Calls :
    /\ call[t].op = "start" /\ call[t].pc = "done" /\ ~call[t].ok
    /\ \A u \in Calls : u > t => call[u].op = "none"
    /\ getRunningProcess(runningProcesses, call[t].path) # 0
    /\ info[getRunningProcess(runningProcesses, call[t].path)].status = "running"
    /\ info[getRunningProcess(runningProcesses, call[t].path)].pid \in alive


\* C30: once stopProcess has removed the record from the registry (and marked
\* it stopped), whatever kills had failed, it raises no error: neither the
\* host release nor the update of the persisted records makes it fail.
C30_StopNeverRaises ==
  stopRun.status = "stopped" => stopRun.pc # "raised"


\* C31: the call resolves once, with the outcome of the first matching line:
\* the step that delivers the first matching line resolves the call with that
\* line's outcome, and once the call has resolved no step changes the result
\* or starts another stopProcess.
C31_ResolvesOnceWithFirstMatch ==
  [][/\ (readyHist.firstMatch = "none" /\ readyHist'.firstMatch # "none" /\ ~ready.resolved)
          => (ready'.resolved /\ ready'.result = readyHist'.firstMatch)
     /\ ready.resolved
          => (ready'.result = ready.result /\ (ready'.stopping => ready.stopping))]_vars


\* C32: when a failure line has resolved the call with failure and no
\* stopProcess is in progress, the child's record is not running any more.
C32_FailureLineStopsChild ==
  (/\ readyHist.cause = "line" /\ ready.result = "failure"
   /\ ~ready.stopping)
    => ready.status # "running"


\* A kill pass of stopProcess begins.
PassBegins == stopRun.pc # "group" /\ stopRun'.pc = "group"

\* C34: every stopProcess call ends (it returns or rejects), and its kill
\* passes are one graceful pass and then at most one forceful pass, begun only
\* when the pid was found alive after the wait; no pass follows the forceful one.
C34_OneEscalation ==
  /\ <>(stopRun.pc \in {"done", "raised"})
  /\ [][PassBegins =>
          \/ stopRun.pc = "idle" /\ ~stopRun'.force
          \/ stopRun.pc = "recheck" /\ ~stopRun.force /\ stopRun'.force /\ stopRun.pidAlive]_vars

\* A call has returned after its forceful pass, kills of which failed: the
\* process is still alive.
C34_Witness ==
  stopRun.pc = "done" /\ stopRun.force /\ stopRun.pidAlive /\ "pid" \in stopRun.failed


\* The place of a signal's kind in the order of a pass.
Rank(kind) ==
  CASE kind = "group" -> 1 [] kind = "session" -> 2 [] kind = "descendant" -> 3
    [] kind = "pid" -> 4 [] OTHER -> 5

\* The processes the descendant kills of the pass have signalled so far.
DescendantsSignalled ==
  {killPass.signals[i][2] : i \in {j \in DOMAIN killPass.signals :
                                     killPass.signals[j][1] = "descendant"}}

\* C33: the signals of a pass are issued in the order group, session,
\* descendants, pid; of two descendants the one below the other is signalled
\* first; and when every pgrep has answered, every process below the pid has
\* been signalled before the pid is.
C33_SignalOrder ==
  LET sig == killPass.signals
  IN /\ \A i \in DOMAIN sig, j \in DOMAIN sig :
          i < j => /\ Rank(sig[i][1]) <= Rank(sig[j][1])
                   /\ (sig[i][1] = "descendant" /\ sig[j][1] = "descendant")
                        => ~Below(killPass.parent, sig[j][2], sig[i][2], MaxTreeNodes)
     /\ (killPass.blind = {} /\ \E i \in DOMAIN sig : sig[i][1] = "pid")
          => \A n \in TreeNodes :
               Below(killPass.parent, n, ThePid, MaxTreeNodes) => n \in DescendantsSignalled

\* A pass is over for a pid with a child, a grandchild and a second child.
C33_Witness ==
  /\ killPass.pc = "done" /\ killPass.blind = {}
  /\ \E a \in TreeNodes, b \in TreeNodes, c \in TreeNodes :
       /\ a # c
       /\ killPass.parent[a] = ThePid /\ killPass.parent[b] = a /\ killPass.parent[c] = ThePid
       /\ {a, b, c} \subseteq DescendantsSignalled


\* C35: the liveness poll of a record is cancelled when the record becomes
\* stopped: once stopProcess has returned (no call is in flight), the poll
\* task of a stopped record does not act any more.
C35_NoPollAfterStopped ==
  [][\A r \in Pids :
       (Quiet /\ monPc[r] = "idle" /\ monPc'[r] # "idle") => info[r].status # "stopped"]_vars


\* The path has a record, in the registry and running or persisted, with host h.
RecordWithHost(p, h) ==
  \/ /\ getRunningProcess(runningProcesses, p) # 0
     /\ info[getRunningProcess(runningProcesses, p)].status = "running"
     /\ info[getRunningProcess(runningProcesses, p)].host = h
  \/ processes[p] # NoStored /\ processes[p].host = h

\* C36: in a quiescent state (no call in flight, no monitor half-way through
\* its handling, no start having failed, at most one start per path), a path
\* has the allocation h if and only if it has a running or persisted record
\* with host h.
C36_AllocationsMatchRecords ==
  (/\ Quiet
   /\ \A r \in Pids : monPc[r] \in {"off", "idle", "end"}
   /\ \A t \in Calls : (call[t].op = "start" /\ call[t].pc = "done") => call[t].ok
   /\ \A t, u \in Calls :
        (call[t].op = "start" /\ call[u].op = "start" /\ call[t].path = call[u].path) => t = u)
    => \A p \in Paths, h \in HostPool : allocations[p] = h <=> RecordWithHost(p, h)


\* The state of path p that the tracked supervisor keeps: the registry record
\* and whether its child lives, the persisted record and the host allocation.
TrackedState(p) ==
  [rec |-> getRunningProcess(runningProcesses, p),
   childAlive |-> /\ getRunningProcess(runningProcesses, p) # 0
                  /\ info[getRunningProcess(runningProcesses, p)].pid \in alive,
   stored |-> processes[p],
   host |-> allocations[p]]

\* A step of a startProcess call with trackProcess = false on path p, or of the
\* monitor of a record such a call has spawned for p.
UntrackedStep(p) ==
  \/ \E t \in Calls : /\ call[t].op = "start" /\ ~call[t].trackProcess /\ call[t].path = p
                      /\ call'[t] # call[t]
  \/ \E r \in Pids : /\ info[r].status # "none" /\ ~info[r].tracked /\ info[r].path = p
                     /\ monPc'[r] # monPc[r]

\* C37: no step of a startProcess with trackProcess = false, and no step of the
\* monitor of the process it started, changes the registry record of its path,
\* kills the path's registered child, changes the persisted record or the host
\* allocation of the path.
C37_UntrackedLeavesTrackedState ==
  [][\A p \in Paths : UntrackedStep(p) => TrackedState(p)' = TrackedState(p)]_vars


\* The routes of path p that are registered at the external proxy.
RoutesOf(p) == {s \in servers : s[1] = p}

\* C38: when no proxy manager call is in flight, a path with an active
\* ProxyState has the route of every port of that state registered at the
\* proxy, and a path without an active ProxyState has no route registered.
C38_StoreAgreesWithProxy ==
  ProxyQuiet =>
    \A p \in Paths :
      IF proxyStates[p].status = "active"
        THEN RoutesOf(p) = {<<p, port>> : port \in RangeOf(proxyStates[p].ports)}
        ELSE RoutesOf(p) = {}


\* C39: when setupProxyRoutes(A, ...) has returned failure (and no call has been
\* issued since), every other path whose active state overlapped A's ports
\* when the call took its snapshot is still active.
C39_FailedSetupKeepsOthersActive ==
  \A t \in ProxyCalls :
    (/\ pcall[t].op = "setup" /\ pcall[t].pc = "done" /\ ~pcall[t].ok
     /\ \A u \in ProxyCalls : u > t => pcall[u].op = "none")
    => pcall[t].saw \subseteq ActivePaths


\* The load of initializeStore completes for call t: its set({ proxyStates,
\* isInitialized: true }) runs.
LoadCompletes(t) == pcall[t].pc = "load" /\ pcall'[t].pc # "load"

\* C40: the completion of an initializeStore load never takes a saved
\* ProxyState out of the store, and once the store is initialized a load
\* changes nothing in it.
C40_LoadKeepsSavedStates ==
  [][\A t \in ProxyCalls :
       LoadCompletes(t) =>
         /\ \A p \in Paths : proxyStates[p] # NoProxy => proxyStates'[p] = proxyStates[p]
         /\ isInitialized => proxyStates' = proxyStates]_vars

====
